---- MODULE Spec2Model ----
(***************************************************************************)
(* Model of DatabaseSqlite3 (src/ppfchecklist/database.py): the four       *)
(* tables Status, List, ListStatus and Entry, and the entry lifecycle      *)
(* insert / update / delete built on the range shifts _increment,          *)
(* _decrement, _increment_range, _decrement_range and on _calc_position.   *)
(*                                                                         *)
(* Every _execute commits its statement (database.py:143-144), so a        *)
(* handler is a sequence of separately committed statements.  A handler    *)
(* is modelled as an operator that returns the exception it raises (""     *)
(* when it returns normally), the final Entry table and the Entry table    *)
(* after each write statement it issued.                                   *)
(***************************************************************************)
EXTENDS Integers, Sequences, FiniteSets, TLC

VARIABLES Status, List, ListStatus, Entry, call

vars == <<Status, List, ListStatus, Entry, call>>

(***************************************************************************)
(* Bounds and input alphabets                                              *)
(***************************************************************************)
\* Highest Entry rowid the model lets the store allocate, and the most
\* entries the store holds when a call has returned.
MaxRowid == 3
MaxRows == 2

\* sys.maxsize stands for "append at the end"; it is only ever compared
\* with a stored position, so the largest integer of the checker is used.
maxsize == 2147483647

\* SQL NULL / Python None, and a present value.
None == {}
Some(x) == {x}
The(o) == CHOOSE x \in o : TRUE

Max(S) == CHOOSE x \in S : \A y \in S : y <= x
Min(S) == CHOOSE x \in S : \A y \in S : x <= y

\* Decimal numerals a form can carry, and Python's int() / str() on them.
Numerals == <<"0", "1", "2", "3", "4", "5", "6", "7", "8", "9">>
IsNumeral(s) == \E i \in 1..Len(Numerals) : Numerals[i] = s
PyInt(s) == (CHOOSE i \in 1..Len(Numerals) : Numerals[i] = s) - 1
PyStr(n) == Numerals[n + 1]

\* str.strip() on the names the model submits.
strip(s) == IF s \in {" b", "b ", " b "} THEN "b" ELSE s

(***************************************************************************)
(* Store: rows, the UNIQUE constraint, rowid allocation                    *)
(***************************************************************************)
\* Joined partition test used by every shift and by MAX(position):
\* JOIN List ON List.rowid = Entry.list AND List.rowid = ?
\* JOIN Status ON Status.rowid = Entry.status AND Status.rowid = ?
InPartition(E, r, table_id, status_id) ==
    /\ E[r].list = table_id
    /\ E[r].status = status_id
    /\ table_id \in DOMAIN List
    /\ status_id \in DOMAIN Status

PartitionRows(E, table_id, status_id) ==
    {r \in DOMAIN E : InPartition(E, r, table_id, status_id)}

\* a UNIQUE constraint under which NULLs are equal to each other
UniqueConflictNulls(E, r, row) == \E q \in DOMAIN E \ {r} : E[q] = row

\* UNIQUE(position,date,name,status,list): SQLite treats NULLs as distinct,
\* so two rows collide only when position and date are both non-NULL.
UniqueConflict(E, r, row) ==
    /\ row.position # None
    /\ row.date # None
    /\ \E q \in DOMAIN E \ {r} : E[q] = row

\* rowid of a row inserted without one: one more than the largest rowid.
NextRowid(E) == IF DOMAIN E = {} THEN 1 ELSE Max(DOMAIN E) + 1

\* UPDATE Entry SET position = position + d WHERE rowid IN S.  The rows are
\* rewritten one at a time in rowid order and the UNIQUE constraint is
\* checked at each row; a violation aborts the whole statement.
RECURSIVE ShiftFold(_, _, _)
ShiftFold(E, S, d) ==
    IF S = {} THEN [ok |-> TRUE, E |-> E]
    ELSE LET r == Min(S)
             row == [E[r] EXCEPT !.position = Some(The(@) + d)]
         IN IF UniqueConflict(E, r, row)
            THEN [ok |-> FALSE, E |-> E]
            ELSE ShiftFold([E EXCEPT ![r] = row], S \ {r}, d)

Shift(E, S, d) ==
    LET res == ShiftFold(E, S, d)
    IN IF res.ok THEN res ELSE [ok |-> FALSE, E |-> E]

(***************************************************************************)
(* PositionEngine                                                          *)
(***************************************************************************)
\* a shift that is not scoped to one partition
increment_everywhere(E, table_id, status_id, position) ==
    Shift(E, {r \in DOMAIN E :
                 E[r].position # None /\ The(E[r].position) >= position}, 1)

\* WHERE Entry.position >= ?
increment(E, table_id, status_id, position) ==
    Shift(E, {r \in PartitionRows(E, table_id, status_id) :
                 E[r].position # None /\ The(E[r].position) >= position}, 1)

\* a delete that closes no gap: no row is shifted
decrement_nothing(E, table_id, status_id, position) ==
    [ok |-> TRUE, E |-> E]

\* WHERE Entry.position > ?   (the bound may be NULL: no row matches)
decrement(E, table_id, status_id, position) ==
    Shift(E, {r \in PartitionRows(E, table_id, status_id) :
                 /\ position # None
                 /\ E[r].position # None
                 /\ The(E[r].position) > The(position)}, -1)

\* WHERE Entry.position >= greater AND Entry.position < lesser
increment_range(E, table_id, status_id, greater, lesser) ==
    Shift(E, {r \in PartitionRows(E, table_id, status_id) :
                 /\ E[r].position # None
                 /\ The(E[r].position) >= greater
                 /\ The(E[r].position) < lesser}, 1)

\* WHERE Entry.position <= lesser AND Entry.position > greater
decrement_range(E, table_id, status_id, lesser, greater) ==
    Shift(E, {r \in PartitionRows(E, table_id, status_id) :
                 /\ E[r].position # None
                 /\ The(E[r].position) <= lesser
                 /\ The(E[r].position) > greater}, -1)

\* SELECT MAX(Entry.position) over the joined partition, 0 when NULL.
max_position(E, table_id, status_id) ==
    LET ps == {The(E[r].position) :
                  r \in {q \in PartitionRows(E, table_id, status_id) :
                            E[q].position # None}}
    IN IF ps = {} THEN 0 ELSE Max(ps)

\* a resolution that treats a request equal to the maximum as an append
calc_position_strict(E, table_id, status_id, position) ==
    LET max_pos == max_position(E, table_id, status_id)
        blank == position \in {"", "None"}
        raw == IF blank THEN maxsize ELSE PyInt(position)
        pos == IF raw < 1 THEN 1 ELSE raw
        res == IF pos < max_pos THEN pos ELSE max_pos + 1
    IN IF ~blank /\ ~IsNumeral(position)
       THEN [err |-> "ValueError", res |-> 0, max_pos |-> max_pos]
       ELSE [err |-> "", res |-> res, max_pos |-> max_pos]

\* a resolution that takes a position that is no number for a blank one
calc_position_lenient(E, table_id, status_id, position) ==
    LET max_pos == max_position(E, table_id, status_id)
        blank == position \in {"", "None"} \/ ~IsNumeral(position)
        raw == IF blank THEN maxsize ELSE PyInt(position)
        pos == IF raw < 1 THEN 1 ELSE raw
        res == IF pos <= max_pos THEN pos ELSE max_pos + 1
    IN [err |-> "", res |-> res, max_pos |-> max_pos]

\* position is a form value: "", "None" (also Python None) or a numeral;
\* int() of anything else raises ValueError.
calc_position(E, table_id, status_id, position) ==
    LET max_pos == max_position(E, table_id, status_id)
        blank == position \in {"", "None"}
        raw == IF blank THEN maxsize ELSE PyInt(position)
        pos == IF raw < 1 THEN 1 ELSE raw
        res == IF pos <= max_pos THEN pos ELSE max_pos + 1
    IN IF ~blank /\ ~IsNumeral(position)
       THEN [err |-> "ValueError", res |-> 0, max_pos |-> max_pos]
       ELSE [err |-> "", res |-> res, max_pos |-> max_pos]

(***************************************************************************)
(* Lookups                                                                 *)
(***************************************************************************)
\* table(name): first List row with that name in display order, if any.
table_by_name(name) ==
    LET m == {t \in DOMAIN List : List[t].name = name}
    IN IF m = {} THEN None
       ELSE Some(CHOOSE t \in m : \A u \in m :
                    \/ List[t].position < List[u].position
                    \/ List[t].position = List[u].position /\ t <= u)

\* table(rowid)
table_by_id(id) == IF id \in DOMAIN List THEN Some(id) ELSE None

\* status(table): every Status row; the list argument is not used.
status(table) == DOMAIN Status

(***************************************************************************)
(* Handler results                                                         *)
(***************************************************************************)
Ok(E, w) == [err |-> "", E |-> E, writes |-> w]
Raise(e, E, w) == [err |-> e, E |-> E, writes |-> w]

\* INSERT INTO Entry VALUES (?,?,?,?,?)
insert_row(E, row, w) ==
    IF UniqueConflict(E, 0, row)
    THEN Raise("IntegrityError", E, w)
    ELSE LET E2 == [r \in DOMAIN E \cup {NextRowid(E)} |->
                       IF r \in DOMAIN E THEN E[r] ELSE row]
         IN Ok(E2, Append(w, E2))

\* an insert that stores the requested position as it was submitted
insert_ranked_raw(E, table_id, status_id, name, position) ==
    LET cp == calc_position(E, table_id, status_id, position)
        raw == IF position \in {"", "None"} THEN cp.res ELSE PyInt(position)
        sh == increment(E, table_id, status_id, raw)
        row == [name |-> name, position |-> Some(raw), date |-> None,
                status |-> status_id, list |-> table_id]
    IN IF cp.err # "" THEN Raise(cp.err, E, <<>>)
       ELSE IF raw <= cp.max_pos
       THEN IF sh.ok THEN insert_row(sh.E, row, <<sh.E>>)
            ELSE Raise("IntegrityError", E, <<>>)
       ELSE insert_row(E, row, <<>>)

\* lines 457-462 and 469-475: position-ordered status
insert_ranked(E, table_id, status_id, name, position) ==
    LET cp == calc_position(E, table_id, status_id, position)
        sh == increment(E, table_id, status_id, cp.res)
        row == [name |-> name, position |-> Some(cp.res), date |-> None,
                status |-> status_id, list |-> table_id]
    IN IF cp.err # "" THEN Raise(cp.err, E, <<>>)
       ELSE IF cp.res <= cp.max_pos
       THEN IF sh.ok THEN insert_row(sh.E, row, <<sh.E>>)
            ELSE Raise("IntegrityError", E, <<>>)
       ELSE insert_row(E, row, <<>>)

\* lines 463-475: date-ordered status.  A blank date asks for
\* datetime.now(), and database.py does not import datetime.
insert_dated(E, table_id, status_id, name, date) ==
    IF date = Some("") THEN Raise("NameError", E, <<>>)
    ELSE insert_row(E, [name |-> name, position |-> None, date |-> date,
                        status |-> status_id, list |-> table_id], <<>>)

\* form = [position, name, status, date]; date is None when the caller
\* passes Python None (update does), Some(text) for a submitted field.
insert(E, form, table) ==
    IF form.status \notin status(table) THEN Raise("IndexError", E, <<>>)
    ELSE IF table_by_name(table) = None THEN Raise("IndexError", E, <<>>)
    ELSE IF Status[form.status].orderByPosition # 0
    THEN insert_ranked(E, The(table_by_name(table)), form.status,
                       strip(form.name), form.position)
    ELSE insert_dated(E, The(table_by_name(table)), form.status,
                      strip(form.name), form.date)

\* a delete that never compares the supplied name with the stored one
delete_unguarded(E, form) ==
    IF ~IsNumeral(form.rowid) THEN Raise("ValueError", E, <<>>)
    ELSE
    LET rowid == PyInt(form.rowid)
    IN IF rowid \notin DOMAIN E THEN Raise("IndexError", E, <<>>)
       ELSE LET sh == decrement(E, E[rowid].list, E[rowid].status,
                                E[rowid].position)
                E2 == [r \in DOMAIN sh.E \ {rowid} |-> sh.E[r]]
            IN IF ~sh.ok THEN Raise("IntegrityError", E, <<>>)
               ELSE Ok(E2, <<sh.E, E2>>)

\* form = [rowid, name]
delete(E, form) ==
    IF ~IsNumeral(form.rowid) THEN Raise("ValueError", E, <<>>)
    ELSE
    LET rowid == PyInt(form.rowid)
        name == strip(form.name)
    IN IF ~(/\ rowid \in DOMAIN E
            /\ E[rowid].list \in DOMAIN List
            /\ E[rowid].status \in DOMAIN Status)
       THEN Raise("IndexError", E, <<>>)
       ELSE IF E[rowid].name # name THEN Ok(E, <<>>)
       ELSE LET sh == decrement(E, E[rowid].list, E[rowid].status,
                                E[rowid].position)
                E2 == [r \in DOMAIN sh.E \ {rowid} |-> sh.E[r]]
            IN IF ~sh.ok THEN Raise("IntegrityError", E, <<>>)
               ELSE Ok(E2, <<sh.E, E2>>)

\* a parsed position (None or an integer) handed on as a Python value
PyPos(p) == IF p = None THEN "None" ELSE PyStr(The(p))

\* the source row is deleted first, then the destination row is inserted
update_move_delete_first(E, rowid, new_table, new_status, new_pos, new_name, new_date, old_name) ==
    LET del == delete(E, [rowid |-> PyStr(rowid), name |-> old_name])
        ins == insert(del.E, [position |-> PyPos(new_pos), name |-> new_name,
                              status |-> new_status, date |-> new_date],
                      List[new_table].name)
    IN IF del.err # "" THEN del
       ELSE [err |-> ins.err, E |-> ins.E,
             writes |-> del.writes \o ins.writes]

\* lines 504-520: insert into the destination, then delete by rowid
update_move(E, rowid, new_table, new_status, new_pos, new_name, new_date, old_name) ==
    LET ins == insert(E, [position |-> PyPos(new_pos), name |-> new_name,
                          status |-> new_status, date |-> new_date],
                      List[new_table].name)
        del == delete(ins.E, [rowid |-> PyStr(rowid), name |-> old_name])
    IN IF ins.err # "" THEN ins
       ELSE [err |-> del.err, E |-> del.E,
             writes |-> ins.writes \o del.writes]

\* lines 532-540: UPDATE Entry SET position, name, date WHERE rowid = ?
update_row(E, rowid, new_p, new_name, new_date, w) ==
    IF rowid \notin DOMAIN E THEN Ok(E, Append(w, E))
    ELSE LET row == [E[rowid] EXCEPT !.position = Some(new_p),
                                     !.name = new_name, !.date = new_date]
             E2 == [E EXCEPT ![rowid] = row]
         IN IF UniqueConflict(E, rowid, row)
            THEN Raise("IntegrityError", E, w)
            ELSE Ok(E2, Append(w, E2))

\* a reorder that issues its UPDATE whether or not anything changed
update_shift_always(E, table_id, status_id, rowid, old_p, new_p, changed, new_name, new_date) ==
    LET sh == IF old_p > new_p
              THEN increment_range(E, table_id, status_id, new_p, old_p)
              ELSE decrement_range(E, table_id, status_id, new_p, old_p)
    IN IF old_p = new_p
       THEN update_row(E, rowid, new_p, new_name, new_date, <<>>)
       ELSE IF ~sh.ok THEN Raise("IntegrityError", E, <<>>)
       ELSE update_row(sh.E, rowid, new_p, new_name, new_date, <<sh.E>>)

\* lines 528-541, after both positions are resolved
update_shift(E, table_id, status_id, rowid, old_p, new_p, changed, new_name, new_date) ==
    LET sh == IF old_p > new_p
              THEN increment_range(E, table_id, status_id, new_p, old_p)
              ELSE decrement_range(E, table_id, status_id, new_p, old_p)
    IN IF old_p = new_p
       THEN IF changed
            THEN update_row(E, rowid, new_p, new_name, new_date, <<>>)
            ELSE Ok(E, <<>>)
       ELSE IF ~sh.ok THEN Raise("IntegrityError", E, <<>>)
       ELSE update_row(sh.E, rowid, new_p, new_name, new_date, <<sh.E>>)

\* lines 522-541: same list and status
update_reorder(E, table_id, status_id, rowid, old_pos, new_pos, changed, new_name, new_date) ==
    LET cpo == calc_position(E, table_id, status_id, PyPos(old_pos))
        cpn == calc_position(E, table_id, status_id, PyPos(new_pos))
    IN update_shift(E, table_id, status_id, rowid, cpo.res,
                    IF cpn.res > cpn.max_pos THEN cpn.max_pos ELSE cpn.res,
                    changed, new_name, new_date)

\* an update without the early return of lines 495-502
update_unguarded(E, rowid, old_table, new_table, old_status, new_status, old_pos, new_pos, old_name, new_name, old_date, new_date) ==
    IF old_table # new_table \/ old_status # new_status
    THEN update_move(E, rowid, new_table, new_status, new_pos, new_name,
                     new_date, old_name)
    ELSE update_reorder(E, old_table, new_status, rowid, old_pos, new_pos,
                        old_name # new_name \/ old_date # new_date,
                        new_name, new_date)

\* lines 493-541, on the parsed fields
update_parsed(E, rowid, old_table, new_table, old_status, new_status, old_pos, new_pos, old_name, new_name, old_date, new_date) ==
    IF /\ old_table = new_table
       /\ old_status = new_status
       /\ old_pos = new_pos
       /\ old_date = new_date
       /\ old_name = new_name
    THEN Ok(E, <<>>)
    ELSE IF old_table # new_table \/ old_status # new_status
    THEN update_move(E, rowid, new_table, new_status, new_pos, new_name,
                     new_date, old_name)
    ELSE update_reorder(E, old_table, new_status, rowid, old_pos, new_pos,
                        old_name # new_name \/ old_date # new_date,
                        new_name, new_date)

\* "None" or "" is no position, anything else goes through int()
PosField(v) == IF v \notin {"None", ""} THEN Some(PyInt(v)) ELSE None
BadPosField(v) == v \notin {"None", ""} /\ ~IsNumeral(v)
\* form["date"] or None
DateOrNone(v) == IF v = "" THEN None ELSE Some(v)

\* form = [rowid, table, old_status, status, old_pos, pos, old_name, name,
\*         old_date, date]; table is the name of the list the form was
\* posted for, form.table the rowid of the list the entry is to be in.
update(E, form, table) ==
    IF table_by_name(table) = None THEN Raise("IndexError", E, <<>>)
    ELSE IF ~IsNumeral(form.rowid) THEN Raise("ValueError", E, <<>>)
    ELSE IF table_by_id(form.table) = None THEN Raise("IndexError", E, <<>>)
    ELSE IF form.old_status \notin status(table)
    THEN Raise("IndexError", E, <<>>)
    ELSE IF form.status \notin status(table) THEN Raise("IndexError", E, <<>>)
    ELSE IF BadPosField(form.old_pos) \/ BadPosField(form.pos)
    THEN Raise("ValueError", E, <<>>)
    ELSE update_parsed(E, PyInt(form.rowid), The(table_by_name(table)),
                       The(table_by_id(form.table)), form.old_status,
                       form.status, PosField(form.old_pos),
                       PosField(form.pos), strip(form.old_name),
                       strip(form.name), DateOrNone(form.old_date),
                       DateOrNone(form.date))

(***************************************************************************)
(* Import of a native snapshot (used here to set the schema rows up)       *)
(***************************************************************************)
\* The snapshot every behaviour loads first: two lists, a position-ordered
\* status and a date-ordered status, every status shown in every list.
SchemaSnapshot ==
    [Status |-> <<[rowid |-> 1, name |-> "Planned", orderByPosition |-> 1],
                  [rowid |-> 2, name |-> "Done", orderByPosition |-> 0]>>,
     List |-> <<[rowid |-> 1, name |-> "A", position |-> 1, active |-> 1],
                [rowid |-> 2, name |-> "B", position |-> 2, active |-> 1]>>,
     ListStatus |-> <<[rowid |-> 1, list |-> 1, status |-> 1],
                      [rowid |-> 2, list |-> 1, status |-> 2],
                      [rowid |-> 3, list |-> 2, status |-> 1],
                      [rowid |-> 4, list |-> 2, status |-> 2]>>,
     Entry |-> <<>>]

Snapshots == {SchemaSnapshot}

Rowids(rows) == {rows[i].rowid : i \in 1..Len(rows)}
RowOf(rows, r) == rows[CHOOSE i \in 1..Len(rows) : rows[i].rowid = r]
DistinctRowids(rows) == Cardinality(Rowids(rows)) = Len(rows)

\* _upload_newstyle for a snapshot whose rowids are distinct in each table:
\* every row is inserted under its rowid; Status.position is set to rowid.
upload_newstyle(data) ==
    [Status |-> [r \in Rowids(data.Status) |->
                    [name |-> RowOf(data.Status, r).name,
                     position |-> r,
                     orderByPosition |->
                         RowOf(data.Status, r).orderByPosition]],
     List |-> [r \in Rowids(data.List) |->
                  [name |-> RowOf(data.List, r).name,
                   position |-> RowOf(data.List, r).position,
                   active |-> RowOf(data.List, r).active]],
     ListStatus |-> [r \in Rowids(data.ListStatus) |->
                        [list |-> RowOf(data.ListStatus, r).list,
                         status |-> RowOf(data.ListStatus, r).status]],
     Entry |-> [r \in Rowids(data.Entry) |->
                   [name |-> RowOf(data.Entry, r).name,
                    position |-> RowOf(data.Entry, r).position,
                    date |-> RowOf(data.Entry, r).date,
                    status |-> RowOf(data.Entry, r).status,
                    list |-> RowOf(data.Entry, r).list]]]

(***************************************************************************)
(* Inputs                                                                  *)
(***************************************************************************)
NameInputs == {"a", " b"}
DateInputs == {"", "d1"}
PosInputs == {"", "0", "1", "2"}
ListNames == {"A", "B"}
ListIds == {1, 2}
StatusIds == {1, 2}

\* values that name nothing or do not parse
BadPos == "x"
BadRowid == "x"
UnknownList == "Z"
UnknownIds == {9}

\* what a form rendered from the stored row carries
DateField(d) == IF d = None THEN "" ELSE The(d)

WithinBound(res) ==
    /\ DOMAIN res.E \subseteq 1..MaxRowid
    /\ Cardinality(DOMAIN res.E) <= MaxRows

NoCall == [op |-> "none", kind |-> "none"]

(***************************************************************************)
(* State machine                                                           *)
(***************************************************************************)
\* a new store handle: _init_database creates the four empty tables
Init ==
    /\ Status = <<>>
    /\ List = <<>>
    /\ ListStatus = <<>>
    /\ Entry = <<>>
    /\ call = NoCall

Upload ==
    /\ call = NoCall
    /\ \E data \in Snapshots :
        /\ \A t \in {"Status", "List", "ListStatus", "Entry"} :
               DistinctRowids(data[t])
        /\ Status' = upload_newstyle(data).Status
        /\ List' = upload_newstyle(data).List
        /\ ListStatus' = upload_newstyle(data).ListStatus
        /\ Entry' = upload_newstyle(data).Entry
        /\ call' = NoCall

\* The call is carried out and what the caller saw of it is kept in call:
\* the operation, its arguments, the exception ("" for a normal return),
\* the number of write statements issued and the Entry table before it.
\* kind is "fresh" for a call made from an up-to-date page; a behaviour is
\* followed no further after a call of another kind.
Called(kind, op, form, table, res) ==
    /\ WithinBound(res)
    /\ Entry' = res.E
    /\ call' = [op |-> op, kind |-> kind, form |-> form, table |-> table,
                err |-> res.err, nwrites |-> Len(res.writes),
                before |-> Entry]
    /\ UNCHANGED <<Status, List, ListStatus>>

Apply(op, form, table, res) == Called("fresh", op, form, table, res)

\* the handler has returned (or raised) and the request is over
Return ==
    /\ call # NoCall
    /\ call.kind = "fresh"
    /\ call' = NoCall
    /\ UNCHANGED <<Status, List, ListStatus, Entry>>

InsertForms ==
    [position : PosInputs, name : NameInputs, status : StatusIds,
     date : {Some(d) : d \in DateInputs}]

\* the form the page renders for the stored row r, with the new list,
\* status, position, name and date the user chose
UpdateForm(r, t, s, p, n, d) ==
    [rowid |-> PyStr(r), table |-> t, old_status |-> Entry[r].status,
     status |-> s, old_pos |-> PyPos(Entry[r].position), pos |-> p,
     old_name |-> Entry[r].name, name |-> n,
     old_date |-> DateField(Entry[r].date), date |-> d]

Insert ==
    /\ call = NoCall
    /\ \E form \in InsertForms, table \in ListNames :
        \E res \in {insert(Entry, form, table)} :
            Apply("insert", form, table, res)

Update ==
    /\ call = NoCall
    /\ \E r \in DOMAIN Entry, t \in ListIds, s \in StatusIds, p \in PosInputs,
       n \in NameInputs, d \in DateInputs :
        \E form \in {UpdateForm(r, t, s, p, n, d)} :
            \E res \in {update(Entry, form, List[Entry[r].list].name)} :
                Apply("update", form, List[Entry[r].list].name, res)

Delete ==
    /\ call = NoCall
    /\ \E r \in DOMAIN Entry :
        \E form \in {[rowid |-> PyStr(r), name |-> Entry[r].name]} :
            \E res \in {delete(Entry, form)} :
                Apply("delete", form, "", res)

Next == Upload \/ Insert \/ Update \/ Delete \/ Return

Spec == Init /\ [][Next]_vars

(***************************************************************************)
(* Callers whose page is out of date, or whose fields name nothing         *)
(***************************************************************************)
RowidInputs == {PyStr(r) : r \in 1..MaxRowid}
StoredNames == {strip(n) : n \in NameInputs}

\* The page was rendered from row r; since then the row may have been
\* renamed, deleted or replaced, so rowid and old_name are any values.
StaleUpdate ==
    /\ call = NoCall
    /\ \E r \in DOMAIN Entry, id \in RowidInputs, on \in StoredNames,
          t \in ListIds, s \in StatusIds, p \in {"", "1"}, d \in DateInputs :
        \E form \in {[UpdateForm(r, t, s, p, on, d) EXCEPT
                         !.rowid = id, !.old_name = on]} :
            \E res \in {update(Entry, form, List[Entry[r].list].name)} :
                Called("stale", "update", form,
                       List[Entry[r].list].name, res)

StaleDelete ==
    /\ call = NoCall
    /\ \E id \in RowidInputs \cup {BadRowid}, n \in NameInputs :
        \E form \in {[rowid |-> id, name |-> n]} :
            \E res \in {delete(Entry, form)} :
                Called("stale", "delete", form, "", res)

\* an insert that names an unknown list or status, or a malformed position
BadInsert ==
    /\ call = NoCall
    /\ \E p \in {"", BadPos}, s \in StatusIds \cup UnknownIds,
          table \in ListNames \cup {UnknownList} :
        /\ p = BadPos \/ s \in UnknownIds \/ table = UnknownList
        /\ \E form \in {[position |-> p, name |-> "a", status |-> s,
                         date |-> Some("d1")]} :
            \E res \in {insert(Entry, form, table)} :
                Called("stale", "insert", form, table, res)

NextStale == Next \/ StaleUpdate \/ StaleDelete \/ BadInsert

SpecStale == Init /\ [][NextStale]_vars

(***************************************************************************)
(* A process that dies between two committed statements                    *)
(***************************************************************************)
\* The first k write statements of the call are committed (each _execute
\* commits), then the process is gone; k is less than the number of
\* statements the call issues.
Crashed(op, form, table, res) ==
    \E k \in 1..(Len(res.writes) - 1) :
        /\ DOMAIN res.writes[k] \subseteq 1..MaxRowid
        /\ Cardinality(DOMAIN res.writes[k]) <= MaxRows
        /\ Entry' = res.writes[k]
        /\ call' = [op |-> op, kind |-> "crash", form |-> form,
                    table |-> table, err |-> "", nwrites |-> k,
                    before |-> Entry]
        /\ UNCHANGED <<Status, List, ListStatus>>

InsertCrash ==
    /\ call = NoCall
    /\ \E form \in InsertForms, table \in ListNames :
        \E res \in {insert(Entry, form, table)} :
            Crashed("insert", form, table, res)

UpdateCrash ==
    /\ call = NoCall
    /\ \E r \in DOMAIN Entry, t \in ListIds, s \in StatusIds, p \in PosInputs,
          n \in NameInputs, d \in DateInputs :
        \E form \in {UpdateForm(r, t, s, p, n, d)} :
            \E res \in {update(Entry, form, List[Entry[r].list].name)} :
                Crashed("update", form, List[Entry[r].list].name, res)

DeleteCrash ==
    /\ call = NoCall
    /\ \E r \in DOMAIN Entry :
        \E form \in {[rowid |-> PyStr(r), name |-> Entry[r].name]} :
            \E res \in {delete(Entry, form)} :
                Crashed("delete", form, "", res)

NextCrash == Next \/ InsertCrash \/ UpdateCrash \/ DeleteCrash

SpecCrash == Init /\ [][NextCrash]_vars

(***************************************************************************)
(* Partitions                                                              *)
(***************************************************************************)
Positions(E, t, s) ==
    {E[r].position : r \in PartitionRows(E, t, s)}

\* positions are exactly 1..N, no gaps, no duplicates, none NULL
Dense(E, t, s) ==
    LET rows == PartitionRows(E, t, s)
    IN /\ \A r \in rows : E[r].position # None
       /\ {The(E[r].position) : r \in rows} = 1..Cardinality(rows)
       /\ \A r1, r2 \in rows :
              E[r1].position = E[r2].position => r1 = r2

PositionOrdered(s) == s \in DOMAIN Status /\ Status[s].orderByPosition # 0

AllDense(E) ==
    \A t \in DOMAIN List, s \in DOMAIN Status :
        PositionOrdered(s) => Dense(E, t, s)

\* C1: density (P1). After any sequence of insert, update and delete calls
\* whose old list, status, position and name are the stored ones, every
\* position-ordered partition holds exactly the positions 1..N.
C1_Density == AllDense(Entry)

\* a full position-ordered partition that was reached through a shift
\* (the row allocated last is not the last in rank) and carries a date
C1_Witness ==
    \E t \in DOMAIN List, s \in DOMAIN Status :
        /\ PositionOrdered(s)
        /\ Cardinality(PartitionRows(Entry, t, s)) = MaxRows
        /\ \E r \in PartitionRows(Entry, t, s) :
               /\ r = MaxRowid
               /\ Entry[r].position = Some(1)
               /\ Entry[r].date # None

(***************************************************************************)
(* What a call was asked to do, read off its arguments                     *)
(***************************************************************************)
Today == "today"

Count(E, t, s) == Cardinality(PartitionRows(E, t, s))

\* an update whose arguments name existing lists and statuses
NamesPartitions(form, table) ==
    /\ table_by_name(table) # None
    /\ form.table \in DOMAIN List
    /\ form.old_status \in DOMAIN Status
    /\ form.status \in DOMAIN Status

\* new list differs from old list, or new status differs from old status
CrossPartition(form, table) ==
    \/ List[form.table].name # table
    \/ form.status # form.old_status

\* positions are the same value: both absent, or the same numeral
SamePosition(a, b) == (a \in {"", "None"} /\ b \in {"", "None"}) \/ a = b

\* every old field equals its new field
IdenticalFields(form, table) ==
    /\ List[form.table].name = table
    /\ form.old_status = form.status
    /\ SamePosition(form.old_pos, form.pos)
    /\ form.old_date = form.date
    /\ strip(form.old_name) = strip(form.name)

\* C2: atomicity of shift plus row write. When the process dies between
\* the statements of an insert, a reorder or a delete, the persisted Entry
\* table holds both the shift and the row write or neither, so it is dense
\* whenever it was dense before the call.
C2_AtomicShiftAndWrite ==
    (call.kind = "crash" /\ AllDense(call.before)) => AllDense(Entry)

\* C3: move conservation (P4). An update that takes the cross-partition
\* branch and returns leaves the number of entries of source plus
\* destination unchanged and both partitions dense when position-ordered.
C3_MoveConservation ==
    (/\ call.op = "update"
     /\ call.kind # "crash"
     /\ call.err = ""
     /\ NamesPartitions(call.form, call.table)
     /\ CrossPartition(call.form, call.table))
    => LET src == The(table_by_name(call.table))
           dst == call.form.table
           os == call.form.old_status
           ns == call.form.status
       IN /\ Cardinality(DOMAIN Entry) = Cardinality(DOMAIN call.before)
          /\   Cardinality(PartitionRows(Entry, src, os)
                           \cup PartitionRows(Entry, dst, ns))
             = Cardinality(PartitionRows(call.before, src, os)
                           \cup PartitionRows(call.before, dst, ns))
          /\ PositionOrdered(os) => Dense(Entry, src, os)
          /\ PositionOrdered(ns) => Dense(Entry, dst, ns)

\* C4: an entry of a date-ordered status never carries a position.
C4_DatedHasNoPosition ==
    \A r \in DOMAIN Entry :
        ~PositionOrdered(Entry[r].status) => Entry[r].position = None

\* C5: an entry of a date-ordered status always carries a date.
C5_DatedHasDate ==
    \A r \in DOMAIN Entry :
        ~PositionOrdered(Entry[r].status) => Entry[r].date # None

\* C6: an entry of a position-ordered status never carries a date.
C6_RankedHasNoDate ==
    \A r \in DOMAIN Entry :
        PositionOrdered(Entry[r].status) => Entry[r].date = None

\* the stored entry an update form was rendered from moves from a
\* position-ordered partition of one list to a date-ordered partition of
\* another list, and no date is supplied
ScenarioE(c) ==
    /\ c.op = "update"
    /\ c.kind = "fresh"
    /\ c.err = ""
    /\ c.form.date = ""
    /\ PositionOrdered(c.form.old_status)
    /\ ~PositionOrdered(c.form.status)
    /\ List[c.form.table].name # c.table

\* C7: Scenario E. After that move the entry is gone from the source
\* partition, whose positions are again 1..N-1, and the destination holds
\* it with position null and date today.
C7_ScenarioE ==
    ScenarioE(call)
    => LET r == PyInt(call.form.rowid)
           src == call.before[r].list
           os == call.form.old_status
       IN /\ r \notin DOMAIN Entry
          /\ Count(Entry, src, os) = Count(call.before, src, os) - 1
          /\ Dense(Entry, src, os)
          /\ \E q \in DOMAIN Entry \ DOMAIN call.before :
                 Entry[q] = [name |-> strip(call.form.name),
                             position |-> None, date |-> Some(Today),
                             status |-> call.form.status,
                             list |-> call.form.table]

\* the (position, date, name, status, list) tuple an insert resolves to
InsertTuple(E, form, table) ==
    LET t == The(table_by_name(table))
    IN [name |-> strip(form.name),
        position |-> IF PositionOrdered(form.status)
                     THEN Some(calc_position(E, t, form.status,
                                             form.position).res)
                     ELSE None,
        date |-> IF PositionOrdered(form.status) THEN None ELSE form.date,
        status |-> form.status, list |-> t]

\* C8: a duplicate insert is absorbed. An insert whose fields resolve to a
\* tuple that is already stored raises nothing and leaves Entry unchanged.
C8_DuplicateAbsorbed ==
    (/\ call.op = "insert"
     /\ call.kind = "fresh"
     /\ ~PositionOrdered(call.form.status)
     /\ \E r \in DOMAIN call.before :
            call.before[r] = InsertTuple(call.before, call.form, call.table))
    => (call.err = "" /\ Entry = call.before)

\* C9: all-or-nothing on error. Whenever insert, update or delete raises,
\* the Entry table is the one before the call.
C9_ErrorLeavesStore ==
    (call.op \in {"insert", "update", "delete"} /\ call.kind # "crash"
     /\ call.err # "")
    => Entry = call.before

\* C10: no-op idempotence (P2). An update whose old and new list, status,
\* position, date and stripped name are identical issues no write
\* statement, leaves every Entry row as it was and returns normally.
C10_NoOp ==
    (/\ call.op = "update"
     /\ call.kind # "crash"
     /\ NamesPartitions(call.form, call.table)
     /\ IdenticalFields(call.form, call.table))
    => (call.nwrites = 0 /\ Entry = call.before /\ call.err = "")

\* a no-op update has returned: the submitted name needed stripping, the
\* position was given as "" for an entry without one, and the store holds
\* an entry of that partition
C10_Witness ==
    /\ call.op = "update"
    /\ NamesPartitions(call.form, call.table)
    /\ IdenticalFields(call.form, call.table)
    /\ call.form.name # call.form.old_name
    /\ call.form.old_pos # call.form.pos
    /\ call.err = ""
    /\ PyInt(call.form.rowid) \in DOMAIN Entry

\* a delete call that names a stored entry
DeletesStored(c) ==
    /\ c.op = "delete"
    /\ c.kind # "crash"
    /\ IsNumeral(c.form.rowid)
    /\ PyInt(c.form.rowid) \in DOMAIN c.before

\* C11 as stated: delete with an existing entry identity and a name that
\* differs from the stored name issues no write, leaves Entry unchanged and
\* raises nothing.
C11_DeleteGuardAnyDifference ==
    (/\ DeletesStored(call)
     /\ call.form.name # call.before[PyInt(call.form.rowid)].name)
    => (call.nwrites = 0 /\ Entry = call.before /\ call.err = "")

\* C11: delete guard (P5). Delete with an existing entry identity and a
\* name that, once its surrounding whitespace is stripped, differs from the
\* stored name issues no write, leaves every entry and every position
\* unchanged and raises nothing.
C11_DeleteGuard ==
    (/\ DeletesStored(call)
     /\ strip(call.form.name) # call.before[PyInt(call.form.rowid)].name)
    => (call.nwrites = 0 /\ Entry = call.before /\ call.err = "")

\* a delete with a mismatching name has returned for an entry of a
\* position-ordered partition that has another entry ranked after it
C11_Witness ==
    /\ DeletesStored(call)
    /\ strip(call.form.name) # call.before[PyInt(call.form.rowid)].name
    /\ call.err = ""
    /\ \E r \in DOMAIN Entry :
           /\ Entry[r].list = Entry[PyInt(call.form.rowid)].list
           /\ Entry[r].status = Entry[PyInt(call.form.rowid)].status
           /\ Entry[r].position = Some(2)
           /\ Entry[PyInt(call.form.rowid)].position = Some(1)

(***************************************************************************)
(* QueryView: tables, status, info                                         *)
(***************************************************************************)
\* ORDER BY k ASC over the rows S: every arrangement of S in which the keys
\* never decrease (SQLite leaves the order of equal keys open)
SortedBy(S, k) ==
    {q \in [1..Cardinality(S) -> S] :
        \A i, j \in 1..Cardinality(S) :
            i < j => (q[i] # q[j] /\ k[q[i]] <= k[q[j]])}

\* SQLite's ascending order of the stored dates; NULL sorts first
Dates == <<"d1", "d2">>
DateKey(d) == IF d = None THEN 0 ELSE CHOOSE i \in 1..Len(Dates) : Dates[i] = The(d)
PositionKey(p) == IF p = None THEN -1 ELSE The(p)

\* a listing that ignores the active flag
tables_all ==
    SortedBy(DOMAIN List, [t \in DOMAIN List |-> List[t].position])

\* SELECT rowid, name FROM List WHERE active = 1 ORDER BY position ASC
tables ==
    SortedBy({t \in DOMAIN List : List[t].active = 1},
             [t \in DOMAIN List |-> List[t].position])

\* SELECT rowid, * FROM Status ORDER BY position (the argument is unused)
status_rows(table) ==
    SortedBy(DOMAIN Status, [x \in DOMAIN Status |-> Status[x].position])

\* lines 309-334: the rows of one status joined to the list of that name,
\* ordered by position when orderByPosition is 1 and by date when it is 0
info_query(E, table, status_id) ==
    SortedBy({r \in DOMAIN E : /\ E[r].list \in DOMAIN List
                               /\ List[E[r].list].name = table
                               /\ E[r].status = status_id},
             [r \in DOMAIN E |->
                 IF Status[status_id].orderByPosition = 1
                 THEN PositionKey(E[r].position)
                 ELSE DateKey(E[r].date)])

\* result[-limit:]
LastRows(result, limit) ==
    SubSeq(result, Max({1, Len(result) - limit + 1}), Len(result))

\* a group that keeps the first rows instead of the last ones
info_rows_head(result, limit, orderByPosition) ==
    IF limit # None /\ The(limit) # 0 /\ orderByPosition = 0
    THEN SubSeq(result, 1, Min({The(limit), Len(result)}))
    ELSE result

\* line 340: result[limit*-1:] if (limit and not orderByPosition) else result
info_rows(result, limit, orderByPosition) ==
    IF limit # None /\ The(limit) # 0 /\ orderByPosition = 0
    THEN LastRows(result, The(limit))
    ELSE result

\* one group as info builds it from the status row and the query result
info_group(status_id, result, limit) ==
    [status |-> Status[status_id].name, status_id |-> status_id,
     orderByPosition |-> Status[status_id].orderByPosition,
     rows |-> info_rows(result, limit, Status[status_id].orderByPosition)]

\* every result info(table, limit) can return: one group per row of
\* status(table), in that order
info(E, table, limit) ==
    UNION {{[i \in 1..Len(st) |-> info_group(st[i], f[i], limit)] :
              f \in {g \in [1..Len(st) ->
                            UNION {info_query(E, table, x) : x \in DOMAIN Status}] :
                        \A i \in 1..Len(st) :
                            g[i] \in info_query(E, table, st[i])}} :
           st \in status_rows(table)}

(***************************************************************************)
(* Stores the queries are asked of: uploaded snapshots                     *)
(***************************************************************************)
\* two lists in either display order, each active or not
QueryLists ==
    {<<[rowid |-> 1, name |-> "A", position |-> p[1], active |-> a[1]],
       [rowid |-> 2, name |-> "B", position |-> p[2], active |-> a[2]]>> :
        p \in {<<1, 2>>, <<2, 1>>}, a \in [1..2 -> {0, 1}]}

\* every status linked to every list; Done not linked to list A; only
\* Planned linked to list B
QueryLinks ==
    {SchemaSnapshot.ListStatus,
     <<[rowid |-> 1, list |-> 1, status |-> 1],
       [rowid |-> 3, list |-> 2, status |-> 1],
       [rowid |-> 4, list |-> 2, status |-> 2]>>,
     <<[rowid |-> 3, list |-> 2, status |-> 1]>>}

EntryRow(r, n, p, d, s, l) ==
    [rowid |-> r, name |-> n, position |-> p, date |-> d, status |-> s,
     list |-> l]

QueryEntries ==
    {<<>>,
     <<EntryRow(1, "a", Some(1), None, 1, 1),
       EntryRow(2, "b", Some(2), None, 1, 1),
       EntryRow(3, "a", Some(3), None, 1, 1)>>,
     <<EntryRow(1, "a", None, Some("d2"), 2, 1),
       EntryRow(2, "b", None, Some("d1"), 2, 1),
       EntryRow(3, "a", None, Some("d1"), 2, 1),
       EntryRow(4, "a", None, Some("d1"), 2, 2)>>,
     <<EntryRow(1, "a", Some(2), None, 1, 1),
       EntryRow(2, "b", Some(1), None, 1, 1),
       EntryRow(3, "a", None, Some("d2"), 2, 1),
       EntryRow(4, "b", None, None, 2, 1),
       EntryRow(5, "a", Some(1), None, 1, 2),
       EntryRow(6, "b", Some(3), None, 1, 2),
       EntryRow(7, "b", Some(0), Some("d1"), 2, 2)>>}

QuerySnapshots ==
    {[Status |-> SchemaSnapshot.Status, List |-> l, ListStatus |-> ls,
      Entry |-> e] : l \in QueryLists, ls \in QueryLinks, e \in QueryEntries}

LimitInputs == {None, Some(0), Some(1), Some(2)}
RequestInputs == {"", "None", "0", "1", "2", "3", "4"}

UploadQuery ==
    /\ call = NoCall
    /\ \E data \in QuerySnapshots :
        /\ Status' = upload_newstyle(data).Status
        /\ List' = upload_newstyle(data).List
        /\ ListStatus' = upload_newstyle(data).ListStatus
        /\ Entry' = upload_newstyle(data).Entry
        /\ call' = NoCall

\* a read: the store is left alone and the caller holds the result
Asked(op, args, res) ==
    /\ call' = [op |-> op, kind |-> "query", args |-> args, res |-> res]
    /\ UNCHANGED <<Status, List, ListStatus, Entry>>

Tables ==
    /\ call = NoCall
    /\ DOMAIN Status # {}
    /\ \E res \in tables : Asked("tables", <<>>, res)

StatusOf ==
    /\ call = NoCall
    /\ DOMAIN Status # {}
    /\ \E table \in ListNames :
        \E res \in status_rows(table) : Asked("status", <<table>>, res)

Info ==
    /\ call = NoCall
    /\ DOMAIN Status # {}
    /\ \E table \in ListNames, limit \in LimitInputs :
        \E res \in info(Entry, table, limit) :
            Asked("info", <<table, limit>>, res)

CalcPosition ==
    /\ call = NoCall
    /\ DOMAIN Status # {}
    /\ \E t \in ListIds, x \in StatusIds, position \in RequestInputs :
        Asked("calc_position", <<t, x, position>>,
              calc_position(Entry, t, x, position))

NextQuery == UploadQuery \/ Tables \/ StatusOf \/ Info \/ CalcPosition

SpecQuery == Init /\ [][NextQuery]_vars

(***************************************************************************)
(* resolve_position, as the specification defines it                       *)
(***************************************************************************)
\* highest position in the partition, 0 if it has none
HighestPosition(E, t, x) ==
    LET ps == {n \in 0..9 : Some(n) \in Positions(E, t, x)}
    IN IF ps = {} THEN 0 ELSE CHOOSE m \in ps : \A n \in ps : n <= m

Unbounded(request) == request \in {"", "None"}

\* the request clamped to at least 1
Clamped(request) == IF PyInt(request) < 1 THEN 1 ELSE PyInt(request)

Resolved(E, t, x, request) ==
    IF ~Unbounded(request) /\ Clamped(request) <= HighestPosition(E, t, x)
    THEN Clamped(request)
    ELSE HighestPosition(E, t, x) + 1

\* C12: resolve_position matches its reference definition for every
\* partition and request: max_position is the highest position or 0, a
\* blank or "None" request is unbounded, the request is clamped to at least
\* 1, resolved is the request when it is at most max_position and
\* max_position + 1 otherwise; so a request above the maximum and a blank
\* request resolve to max + 1, and every request resolves to 1 in an empty
\* partition.
C12_ResolvePosition ==
    call.op = "calc_position"
    => LET t == call.args[1]
           x == call.args[2]
           request == call.args[3]
           hi == HighestPosition(Entry, t, x)
       IN /\ call.res.err = ""
          /\ call.res.max_pos = hi
          /\ call.res.res = Resolved(Entry, t, x, request)
          /\ Unbounded(request) => call.res.res = hi + 1
          /\ (~Unbounded(request) /\ PyInt(request) > hi)
                 => call.res.res = hi + 1
          /\ PartitionRows(Entry, t, x) = {} => call.res.res = 1

\* a request equal to the maximum of a partition with a gap has been
\* resolved to itself
C12_Witness ==
    /\ call.op = "calc_position"
    /\ call.args[3] = "3"
    /\ call.res.res = 3
    /\ Cardinality(PartitionRows(Entry, call.args[1], call.args[2])) = 2

(***************************************************************************)
(* Scenarios B, C, D: one call on a dense position-ordered partition       *)
(***************************************************************************)
\* the rank of a stored entry
Rank(E, r) == The(E[r].position)

\* an insert into a dense position-ordered partition of N entries with a
\* requested position p, 1 <= p <= N
InsertsInside(c) ==
    /\ c.op = "insert"
    /\ c.kind = "fresh"
    /\ PositionOrdered(c.form.status)
    /\ IsNumeral(c.form.position)
    /\ Dense(c.before, The(table_by_name(c.table)), c.form.status)
    /\ 1 <= PyInt(c.form.position)
    /\ PyInt(c.form.position)
           <= Count(c.before, The(table_by_name(c.table)), c.form.status)

\* C13: insert inside the range (Scenario B). Every entry formerly below p
\* stays, every entry formerly at q >= p is at q + 1, the new entry is at
\* p, and the positions are exactly 1..N+1.
C13_InsertInside ==
    InsertsInside(call)
    => LET t == The(table_by_name(call.table))
           x == call.form.status
           p == PyInt(call.form.position)
       IN /\ call.err = ""
          /\ \A r \in PartitionRows(call.before, t, x) :
                 /\ r \in DOMAIN Entry
                 /\ Rank(Entry, r) = IF Rank(call.before, r) < p
                                     THEN Rank(call.before, r)
                                     ELSE Rank(call.before, r) + 1
          /\ \E q \in DOMAIN Entry \ DOMAIN call.before :
                 /\ InPartition(Entry, q, t, x)
                 /\ Entry[q].position = Some(p)
          /\ Count(Entry, t, x) = Count(call.before, t, x) + 1
          /\ Dense(Entry, t, x)

\* an update, made from the stored row, that keeps list and status and asks
\* for a position in a dense position-ordered partition
ReordersInPlace(c) ==
    /\ c.op = "update"
    /\ c.kind = "fresh"
    /\ ~CrossPartition(c.form, c.table)
    /\ PositionOrdered(c.form.status)
    /\ IsNumeral(c.form.pos)
    /\ Dense(c.before, c.form.table, c.form.status)

\* C14: same-partition reorder (Scenario C). The entry ends at
\* min(max(new, 1), N); when it moves towards the front the entries
\* formerly at new..old-1 move up by one, when it moves towards the end the
\* entries formerly at old+1..new move down by one; nothing else moves and
\* the positions are again exactly 1..N.
C14_Reorder ==
    ReordersInPlace(call)
    => LET t == call.form.table
           x == call.form.status
           r == PyInt(call.form.rowid)
           old == Rank(call.before, r)
           new == Min({Max({PyInt(call.form.pos), 1}), Count(call.before, t, x)})
       IN /\ call.err = ""
          /\ DOMAIN Entry = DOMAIN call.before
          /\ Rank(Entry, r) = new
          /\ \A q \in PartitionRows(call.before, t, x) \ {r} :
                 Rank(Entry, q) =
                     IF new <= Rank(call.before, q) /\ Rank(call.before, q) < old
                     THEN Rank(call.before, q) + 1
                     ELSE IF old < Rank(call.before, q) /\ Rank(call.before, q) <= new
                     THEN Rank(call.before, q) - 1
                     ELSE Rank(call.before, q)
          /\ Dense(Entry, t, x)

\* a delete, with the stored name, of an entry of a dense position-ordered
\* partition
DeletesRanked(c) ==
    /\ DeletesStored(c)
    /\ c.kind = "fresh"
    /\ c.form.name = c.before[PyInt(c.form.rowid)].name
    /\ PositionOrdered(c.before[PyInt(c.form.rowid)].status)
    /\ Dense(c.before, c.before[PyInt(c.form.rowid)].list,
             c.before[PyInt(c.form.rowid)].status)

\* C15: delete closes the gap (Scenario D). Exactly that row is removed,
\* entries below p stay, every entry formerly at q > p is at q - 1, and the
\* positions are exactly 1..N-1.
C15_DeleteClosesGap ==
    DeletesRanked(call)
    => LET r == PyInt(call.form.rowid)
           t == call.before[r].list
           x == call.before[r].status
           p == Rank(call.before, r)
       IN /\ call.err = ""
          /\ DOMAIN Entry = DOMAIN call.before \ {r}
          /\ \A q \in PartitionRows(call.before, t, x) \ {r} :
                 Rank(Entry, q) = IF Rank(call.before, q) < p
                                  THEN Rank(call.before, q)
                                  ELSE Rank(call.before, q) - 1
          /\ Dense(Entry, t, x)

(***************************************************************************)
(* QueryView claims                                                        *)
(***************************************************************************)
\* the statuses linked to list t by a ListStatus row
Visible(t) ==
    {x \in DOMAIN Status :
        \E l \in DOMAIN ListStatus :
            ListStatus[l].list = t /\ ListStatus[l].status = x}

\* q enumerates exactly the set S, each element once
Enumerates(q, S) ==
    /\ Len(q) = Cardinality(S)
    /\ {q[i] : i \in 1..Len(q)} = S

\* q is in display order: positions never decrease
InDisplayOrder(q, T) ==
    \A i, j \in 1..Len(q) : i < j => T[q[i]].position <= T[q[j]].position

\* C17: status(list) returns exactly the statuses linked to the list by a
\* ListStatus row, in display order; a status without such a row is not
\* returned.
C17_StatusVisible ==
    call.op = "status"
    => /\ Enumerates(call.res, Visible(The(table_by_name(call.args[1]))))
       /\ InDisplayOrder(call.res, Status)

\* the rows of a group are the entries of partition (t, x), by position
\* ascending when x is position-ordered and by date ascending otherwise
GroupOrdered(rows, t, x) ==
    /\ Enumerates(rows, PartitionRows(Entry, t, x))
    /\ \A i, j \in 1..Len(rows) :
           i < j => IF PositionOrdered(x)
                    THEN PositionKey(Entry[rows[i]].position)
                             <= PositionKey(Entry[rows[j]].position)
                    ELSE DateKey(Entry[rows[i]].date)
                             <= DateKey(Entry[rows[j]].date)

\* C18: info(list) returns one group per visible status in display order,
\* each holding exactly the entries of its (list, status) partition in
\* position order or date order.
C18_InfoGroups ==
    (call.op = "info" /\ call.args[2] = None)
    => LET t == The(table_by_name(call.args[1]))
           ids == [i \in 1..Len(call.res) |-> call.res[i].status_id]
       IN /\ Enumerates(ids, Visible(t))
          /\ InDisplayOrder(ids, Status)
          /\ \A i \in 1..Len(call.res) :
                 GroupOrdered(call.res[i].rows, t, ids[i])

\* C19: info(list, limit) with limit >= 1 returns for each date-ordered
\* group the last min(limit, size) rows of the date-ascending order, and
\* for each position-ordered group the complete group.
C19_InfoLimit ==
    (call.op = "info" /\ call.args[2] # None /\ The(call.args[2]) >= 1)
    => LET t == The(table_by_name(call.args[1]))
           limit == The(call.args[2])
       IN \A i \in 1..Len(call.res) :
              LET x == call.res[i].status_id
                  n == Count(Entry, t, x)
              IN IF PositionOrdered(x)
                 THEN GroupOrdered(call.res[i].rows, t, x)
                 ELSE \E full \in [1..n -> PartitionRows(Entry, t, x)] :
                          /\ GroupOrdered(full, t, x)
                          /\ call.res[i].rows
                                 = SubSeq(full, n - Min({limit, n}) + 1, n)

\* info was asked for the last row of each date-ordered group of a list
\* that has a date-ordered group of several entries and a position-ordered
\* group of several entries
C19_Witness ==
    /\ call.op = "info"
    /\ call.args[2] = Some(1)
    /\ \E i, j \in 1..Len(call.res) :
           /\ ~PositionOrdered(call.res[i].status_id)
           /\ Len(call.res[i].rows) = 1
           /\ Count(Entry, The(table_by_name(call.args[1])),
                    call.res[i].status_id) > 1
           /\ PositionOrdered(call.res[j].status_id)
           /\ Len(call.res[j].rows) > 1

\* C20: tables() returns exactly the List rows whose active flag is set,
\* ordered by display position ascending.
C20_Tables ==
    call.op = "tables"
    => /\ Enumerates(call.res, {t \in DOMAIN List : List[t].active = 1})
       /\ InDisplayOrder(call.res, List)

\* tables() has returned the one active list although an inactive list
\* precedes it in display order
C20_Witness ==
    /\ call.op = "tables"
    /\ Len(call.res) = 1
    /\ \E t \in DOMAIN List :
           /\ List[t].active = 0
           /\ List[t].position < List[call.res[1]].position

(***************************************************************************)
(* Two calls whose statements interleave                                   *)
(***************************************************************************)
\* A call in progress: op, form and table are its arguments, pc the
\* statement it executes next, loc the values it has read so far, err the
\* exception that ended it.  Every _execute is one step.
Proc(op, form, table) ==
    [op |-> op, form |-> form, table |-> table, pc |-> "start",
     loc |-> <<>>, err |-> ""]

Ended(p, e) == [p EXCEPT !.pc = "done", !.err = e]
Goes(E, p) == [E |-> E, p |-> p]

\* insert, lines 457-475, one statement at a time
insert_step(E, p) ==
    LET t == The(table_by_name(p.table))
        x == p.form.status
        cp == calc_position(E, t, x, p.form.position)
        sh == increment(E, t, x, p.loc.position)
        wr == insert_row(E, [name |-> strip(p.form.name),
                             position |-> Some(p.loc.position),
                             date |-> None, status |-> x, list |-> t], <<>>)
        dt == insert_dated(E, t, x, strip(p.form.name), p.form.date)
    IN IF p.pc = "start" /\ Status[x].orderByPosition = 0
       THEN Goes(dt.E, Ended(p, dt.err))
       ELSE IF p.pc = "start"
       THEN Goes(E, [p EXCEPT !.loc = [position |-> cp.res],
                              !.pc = IF cp.res <= cp.max_pos
                                     THEN "shift" ELSE "write"])
       ELSE IF p.pc = "shift"
       THEN IF sh.ok THEN Goes(sh.E, [p EXCEPT !.pc = "write"])
            ELSE Goes(E, Ended(p, "IntegrityError"))
       ELSE Goes(wr.E, Ended(p, wr.err))

\* delete, lines 547-564, one statement at a time
delete_step(E, p) ==
    LET rowid == PyInt(p.form.rowid)
        sh == decrement(E, p.loc.table_id, p.loc.status_id, p.loc.position)
    IN IF p.pc = "start"
       THEN IF rowid \notin DOMAIN E THEN Goes(E, Ended(p, "IndexError"))
            ELSE IF E[rowid].name # strip(p.form.name)
            THEN Goes(E, Ended(p, ""))
            ELSE Goes(E, [p EXCEPT !.loc = [position |-> E[rowid].position,
                                            table_id |-> E[rowid].list,
                                            status_id |-> E[rowid].status],
                                   !.pc = "shift"])
       ELSE IF p.pc = "shift"
       THEN IF sh.ok THEN Goes(sh.E, [p EXCEPT !.pc = "write"])
            ELSE Goes(E, Ended(p, "IntegrityError"))
       ELSE Goes([r \in DOMAIN E \ {rowid} |-> E[r]], Ended(p, ""))

\* update with list and status unchanged, lines 495-502 and 522-541, one
\* statement at a time
update_step(E, p) ==
    LET t == p.form.table
        x == p.form.status
        rowid == PyInt(p.form.rowid)
        new_name == strip(p.form.name)
        new_date == DateOrNone(p.form.date)
        changed == \/ strip(p.form.old_name) # new_name
                   \/ DateOrNone(p.form.old_date) # new_date
        cpo == calc_position(E, t, x, PyPos(PosField(p.form.old_pos)))
        cpn == calc_position(E, t, x, PyPos(PosField(p.form.pos)))
        new_pos == IF cpn.res > cpn.max_pos THEN cpn.max_pos ELSE cpn.res
        sh == IF p.loc.old_pos > p.loc.new_pos
              THEN increment_range(E, t, x, p.loc.new_pos, p.loc.old_pos)
              ELSE decrement_range(E, t, x, p.loc.new_pos, p.loc.old_pos)
        wr == update_row(E, rowid, p.loc.new_pos, new_name, new_date, <<>>)
    IN IF p.pc = "start"
       THEN IF PosField(p.form.old_pos) = PosField(p.form.pos) /\ ~changed
            THEN Goes(E, Ended(p, ""))
            ELSE Goes(E, [p EXCEPT !.loc = [old_pos |-> cpo.res],
                                   !.pc = "calc"])
       ELSE IF p.pc = "calc"
       THEN Goes(E, [p EXCEPT !.loc = [old_pos |-> p.loc.old_pos,
                                       new_pos |-> new_pos],
                              !.pc = IF p.loc.old_pos # new_pos THEN "shift"
                                     ELSE IF changed THEN "write"
                                     ELSE "done"])
       ELSE IF p.pc = "shift"
       THEN IF sh.ok THEN Goes(sh.E, [p EXCEPT !.pc = "write"])
            ELSE Goes(E, Ended(p, "IntegrityError"))
       ELSE Goes(wr.E, Ended(p, wr.err))

step(E, p) ==
    IF p.op = "insert" THEN insert_step(E, p)
    ELSE IF p.op = "delete" THEN delete_step(E, p)
    ELSE update_step(E, p)

\* the same call run from its first statement to its last
run(E, p) ==
    IF p.op = "insert" THEN insert(E, p.form, p.table).E
    ELSE IF p.op = "delete" THEN delete(E, p.form).E
    ELSE update(E, p.form, p.table).E

\* the (list, status) partition a call works on
target(E, p) ==
    IF p.op = "insert"
    THEN <<The(table_by_name(p.table)), p.form.status>>
    ELSE <<E[PyInt(p.form.rowid)].list, E[PyInt(p.form.rowid)].status>>

\* The store two interleaved calls start from: a ranked partition of two
\* entries in each list and a dated partition.
PairSnapshot ==
    [Status |-> SchemaSnapshot.Status, List |-> SchemaSnapshot.List,
     ListStatus |-> SchemaSnapshot.ListStatus,
     Entry |-> <<EntryRow(1, "a", Some(1), None, 1, 1),
                 EntryRow(2, "b", Some(2), None, 1, 1),
                 EntryRow(3, "a", Some(1), None, 1, 2),
                 EntryRow(4, "a", Some(2), Some("d1"), 1, 2),
                 EntryRow(5, "a", None, Some("d1"), 2, 1)>>]

UploadPair ==
    /\ call = NoCall
    /\ Status' = upload_newstyle(PairSnapshot).Status
    /\ List' = upload_newstyle(PairSnapshot).List
    /\ ListStatus' = upload_newstyle(PairSnapshot).ListStatus
    /\ Entry' = upload_newstyle(PairSnapshot).Entry
    /\ call' = NoCall

\* the calls a page of the current store can make
PairCalls ==
    {Proc("insert", f, tb) :
        f \in [position : {"", "1"}, name : {"a"}, status : StatusIds,
               date : {Some("d1")}],
        tb \in ListNames}
    \cup {Proc("update",
               UpdateForm(r, Entry[r].list, Entry[r].status, q, n,
                          DateField(Entry[r].date)),
               List[Entry[r].list].name) :
              r \in DOMAIN Entry, q \in {"1", "2"}, n \in NameInputs}
    \cup {Proc("delete", [rowid |-> PyStr(r), name |-> Entry[r].name], "") :
              r \in DOMAIN Entry}

\* two calls on different partitions are started; order lists which call
\* executed each statement so far
StartPair ==
    /\ call = NoCall
    /\ DOMAIN Entry # {}
    /\ \E p1, p2 \in PairCalls :
        /\ target(Entry, p1) # target(Entry, p2)
        /\ call' = [op |-> "pair", kind |-> "interleaved",
                    before |-> Entry, start |-> <<p1, p2>>,
                    procs |-> <<p1, p2>>, order |-> <<>>]
    /\ UNCHANGED <<Status, List, ListStatus, Entry>>

\* one of them executes its next statement
StepPair ==
    /\ call.op = "pair"
    /\ \E i \in 1..2 :
        /\ call.procs[i].pc # "done"
        /\ Entry' = step(Entry, call.procs[i]).E
        /\ call' = [call EXCEPT !.procs[i] = step(Entry, call.procs[i]).p,
                                !.order = Append(call.order, i)]
    /\ UNCHANGED <<Status, List, ListStatus>>

NextPair == UploadPair \/ StartPair \/ StepPair

SpecPair == Init /\ [][NextPair]_vars

\* the same rows whatever their rowids
SameRows(E1, E2) ==
    \E f \in [DOMAIN E1 -> DOMAIN E2] :
        /\ \A r \in DOMAIN E1 : E1[r] = E2[f[r]]
        /\ {f[r] : r \in DOMAIN E1} = DOMAIN E2
        /\ Cardinality(DOMAIN E1) = Cardinality(DOMAIN E2)

status_rows_submitted(form) ==
    LET kept == SelectSeq(form.statusOrder,
                          LAMBDA og : form.status[og].name # "")
    IN [i \in 1..Len(kept) |->
           [rowid |-> IF kept[i] <= form.numStatuses THEN kept[i] ELSE 0,
            name |-> form.status[kept[i]].name,
            orderByPosition |-> form.status[kept[i]].orderByPosition,
            og_name |-> form.status[kept[i]].og_name,
            og_position |-> form.status[kept[i]].og_position,
            position |-> i]]

\* lines 656-672: og_name is read from the key that holds the new name
table_rows_submitted(form) ==
    LET kept == SelectSeq(form.tableOrder,
                          LAMBDA og : form.table[og].name # "")
    IN [i \in 1..Len(kept) |->
           [rowid |-> IF kept[i] <= form.numTables THEN kept[i] ELSE 0,
            name |-> form.table[kept[i]].name,
            active |-> form.table[kept[i]].active,
            og_name |-> form.table[kept[i]].name,
            og_position |-> form.table[kept[i]].position,
            position |-> i]]

\* every submitted row is written, changed or not
changed_rows_all(rows) == rows

\* lines 623-627 and 674-678: the rows whose name or position changed
changed_rows(rows) ==
    SelectSeq(rows, LAMBDA x : x.name # x.og_name
                               \/ x.position # x.og_position)

\* partition(lambda i: i["rowid"] == 0, rows): rows to update, rows to insert
rows_to_update(rows) == SelectSeq(rows, LAMBDA x : x.rowid # 0)
rows_to_insert(rows) == SelectSeq(rows, LAMBDA x : x.rowid = 0)

FlagValue(b) == IF b THEN 1 ELSE 0
NewRowid(T) == IF DOMAIN T = {} THEN 1 ELSE Max(DOMAIN T) + 1

\* UPDATE Status SET name = ?, position = ? WHERE rowid = ?, row after row
RECURSIVE update_statuses(_, _)
update_statuses(T, rows) ==
    IF rows = <<>> THEN T
    ELSE update_statuses(
             [r \in DOMAIN T |->
                 IF r = Head(rows).rowid
                 THEN [T[r] EXCEPT !.name = Head(rows).name,
                                   !.position = Head(rows).position]
                 ELSE T[r]],
             Tail(rows))

\* INSERT INTO Status(name, position, orderByPosition), row after row
RECURSIVE insert_statuses(_, _)
insert_statuses(T, rows) ==
    IF rows = <<>> THEN T
    ELSE insert_statuses(
             [r \in DOMAIN T \cup {NewRowid(T)} |->
                 IF r \in DOMAIN T THEN T[r]
                 ELSE [name |-> Head(rows).name,
                       position |-> Head(rows).position,
                       orderByPosition |->
                           FlagValue(Head(rows).orderByPosition)]],
             Tail(rows))

\* UPDATE List SET name = ?, position = ?, active = ? WHERE rowid = ?
RECURSIVE update_tables(_, _)
update_tables(T, rows) ==
    IF rows = <<>> THEN T
    ELSE update_tables(
             [r \in DOMAIN T |->
                 IF r = Head(rows).rowid
                 THEN [name |-> Head(rows).name,
                       position |-> Head(rows).position,
                       active |-> FlagValue(Head(rows).active)]
                 ELSE T[r]],
             Tail(rows))

\* INSERT INTO List(name, position, active)
RECURSIVE insert_tables(_, _)
insert_tables(T, rows) ==
    IF rows = <<>> THEN T
    ELSE insert_tables(
             [r \in DOMAIN T \cup {NewRowid(T)} |->
                 IF r \in DOMAIN T THEN T[r]
                 ELSE [name |-> Head(rows).name,
                       position |-> Head(rows).position,
                       active |-> FlagValue(Head(rows).active)]],
             Tail(rows))

\* set_settings: the tables it leaves and the rows it wrote, as returned
set_settings(S, L, form) ==
    LET statuses == changed_rows(status_rows_submitted(form))
        tables_ == changed_rows(table_rows_submitted(form))
    IN [Status |-> insert_statuses(
                       update_statuses(S, rows_to_update(statuses)),
                       rows_to_insert(statuses)),
        List |-> insert_tables(update_tables(L, rows_to_update(tables_)),
                               rows_to_insert(tables_)),
        statusUpdate |-> rows_to_update(statuses),
        statusInsert |-> rows_to_insert(statuses),
        tableUpdate |-> rows_to_update(tables_),
        tableInsert |-> rows_to_insert(tables_)]

(***************************************************************************)
(* Export, and the settings page                                           *)
(***************************************************************************)
\* SELECT rowid, * FROM <table>: the rows with their rowid, by rowid
RowidOrder(T) == CHOOSE q \in SortedBy(DOMAIN T, [r \in DOMAIN T |-> r]) : TRUE

download ==
    [Status |-> [i \in 1..Cardinality(DOMAIN Status) |->
                    [rowid |-> RowidOrder(Status)[i],
                     name |-> Status[RowidOrder(Status)[i]].name,
                     position |-> Status[RowidOrder(Status)[i]].position,
                     orderByPosition |->
                         Status[RowidOrder(Status)[i]].orderByPosition]],
     List |-> [i \in 1..Cardinality(DOMAIN List) |->
                  [rowid |-> RowidOrder(List)[i],
                   name |-> List[RowidOrder(List)[i]].name,
                   position |-> List[RowidOrder(List)[i]].position,
                   active |-> List[RowidOrder(List)[i]].active]],
     ListStatus |-> [i \in 1..Cardinality(DOMAIN ListStatus) |->
                        [rowid |-> RowidOrder(ListStatus)[i],
                         list |-> ListStatus[RowidOrder(ListStatus)[i]].list,
                         status |->
                             ListStatus[RowidOrder(ListStatus)[i]].status]],
     Entry |-> [i \in 1..Cardinality(DOMAIN Entry) |->
                   EntryRow(RowidOrder(Entry)[i],
                            Entry[RowidOrder(Entry)[i]].name,
                            Entry[RowidOrder(Entry)[i]].position,
                            Entry[RowidOrder(Entry)[i]].date,
                            Entry[RowidOrder(Entry)[i]].status,
                            Entry[RowidOrder(Entry)[i]].list)]]

\* most Status rows and most List rows the settings page is let to create
MaxSettingsRows == 3

Perms(S) ==
    {q \in [1..Cardinality(S) -> S] :
        \A i, j \in 1..Cardinality(S) : i < j => q[i] # q[j]}

\* what the user does to one row of the page: nothing, a new name (blank
\* included), or the checkbox flipped
RowEdits(T, names, flips) ==
    {[row |-> 0, name |-> "", flip |-> FALSE]}
    \cup {[row |-> r, name |-> n, flip |-> FALSE] :
             r \in DOMAIN T, n \in names}
    \cup {[row |-> r, name |-> T[r].name, flip |-> f] :
             r \in DOMAIN T, f \in flips}

NoEdit == [row |-> 0, name |-> "", flip |-> FALSE]

EditedName(T, og, edit) == IF edit.row = og THEN edit.name ELSE T[og].name
Flipped(flag, og, edit) == IF edit.row = og /\ edit.flip THEN 1 - flag ELSE flag

\* the status fields of the page rendered from the stored rows (lines
\* 566-598), as submitted with one edit and an added row named new ("" for
\* none)
StatusFields(edit, new) ==
    [og \in DOMAIN Status \cup {Cardinality(DOMAIN Status) + 1} |->
        IF og \in DOMAIN Status
        THEN [name |-> EditedName(Status, og, edit),
              orderByPosition |-> Status[og].orderByPosition = 1,
              og_name |-> Status[og].name,
              og_position |-> Status[og].position]
        ELSE [name |-> new, orderByPosition |-> FALSE, og_name |-> "",
              og_position |-> 0]]

TableFields(edit, new) ==
    [og \in DOMAIN List \cup {Cardinality(DOMAIN List) + 1} |->
        IF og \in DOMAIN List
        THEN [name |-> EditedName(List, og, edit),
              active |-> Flipped(List[og].active, og, edit) = 1,
              position |-> List[og].position]
        ELSE [name |-> new, active |-> TRUE, position |-> 0]]

SettingsForm(so, se, sn, to, te, tn) ==
    [statusOrder |-> Append(so, Cardinality(DOMAIN Status) + 1),
     numStatuses |-> Cardinality(DOMAIN Status),
     status |-> StatusFields(se, sn),
     tableOrder |-> Append(to, Cardinality(DOMAIN List) + 1),
     numTables |-> Cardinality(DOMAIN List),
     table |-> TableFields(te, tn)]

\* the settings as the last upload left them
AsUploaded ==
    \E data \in Snapshots :
        /\ Status = upload_newstyle(data).Status
        /\ List = upload_newstyle(data).List

\* One submission of the page changes the statuses or the lists.  A
\* submission to a store that is no longer as uploaded is the last one.
SetSettings ==
    /\ call = NoCall
    /\ DOMAIN Status # {}
    /\ \E so \in Perms(DOMAIN Status),
          se \in RowEdits(Status, {"Held"}, {TRUE}),
          sn \in {"", "Dropped"}, to \in Perms(DOMAIN List),
          te \in RowEdits(List, {"", "A", "C"}, {TRUE}),
          tn \in {"", "A", "C"} :
        /\ \/ se = NoEdit /\ sn = "" /\ so = RowidOrder(Status)
           \/ te = NoEdit /\ tn = "" /\ to = RowidOrder(List)
        /\ se = NoEdit \/ sn = ""
        /\ te = NoEdit \/ tn = ""
        /\ \E form \in {SettingsForm(so, se, sn, to, te, tn)} :
            \E res \in {set_settings(Status, List, form)} :
                /\ Cardinality(DOMAIN res.Status) <= MaxSettingsRows
                /\ Cardinality(DOMAIN res.List) <= MaxSettingsRows
                /\ Status' = res.Status
                /\ List' = res.List
                /\ call' = [op |-> "set_settings",
                            kind |-> IF AsUploaded THEN "fresh" ELSE "again",
                            form |-> form, res |-> res,
                            before |-> [Status |-> Status, List |-> List]]
    /\ UNCHANGED <<ListStatus, Entry>>

\* import(export()): the store is exported and the export is uploaded
RoundTrip ==
    /\ call = NoCall
    /\ DOMAIN Status # {}
    /\ Status' = upload_newstyle(download).Status
    /\ List' = upload_newstyle(download).List
    /\ ListStatus' = upload_newstyle(download).ListStatus
    /\ Entry' = upload_newstyle(download).Entry
    /\ call' = [op |-> "roundtrip", kind |-> "fresh", exported |-> download]

NextSettings == Upload \/ SetSettings \/ RoundTrip \/ Return

SpecSettings == Init /\ [][NextSettings]_vars

(***************************************************************************)
(* Claims about export, import and the settings page                       *)
(***************************************************************************)
Submitted == call # NoCall /\ call.op = "set_settings"

\* C23: for every store state, import(export()) yields a store whose export
\* equals the original snapshot in all four tables, each Status row's
\* display position included.
C23_RoundTrip ==
    (call # NoCall /\ call.op = "roundtrip") => download = call.exported

\* a written row differs from the stored row in name or display position
DiffersFromStored(T, x) ==
    x.name # T[x.rowid].name \/ x.position # T[x.rowid].position

\* every named row of the submission is a stored row with the stored name
\* at the stored position
EqualsStored(T, rows) ==
    \A i \in 1..Len(rows) :
        /\ rows[i].rowid \in DOMAIN T
        /\ ~DiffersFromStored(T, rows[i])

C25_PersistsEveryChange ==
    Submitted =>
        \A i \in 1..Len(table_rows_submitted(call.form)) :
            LET x == table_rows_submitted(call.form)[i]
            IN x.rowid # 0 =>
                   /\ List[x.rowid].name = x.name
                   /\ List[x.rowid].position = x.position
                   /\ List[x.rowid].active = FlagValue(x.active)

\* C26: after any sequence of set_settings operations and imports, no two
\* List rows share a name and no two List rows share a display position.
C26_ListKeysUnique ==
    \A r1, r2 \in DOMAIN List :
        r1 # r2 => /\ List[r1].name # List[r2].name
                   /\ List[r1].position # List[r2].position

(***************************************************************************)
(* Claims about the order of the statements of a move                      *)
(***************************************************************************)
\* the row the call moves is still stored as it was before the call
InSource ==
    /\ PyInt(call.form.rowid) \in DOMAIN Entry
    /\ Entry[PyInt(call.form.rowid)] = call.before[PyInt(call.form.rowid)]

\* the destination partition holds an entry with the submitted name
InDestination ==
    \E q \in PartitionRows(Entry, call.form.table, call.form.status) :
        Entry[q].name = strip(call.form.name)

\* C30: in a cross-partition move the destination insert is committed
\* before the source row is deleted: in every committed state of the move,
\* also the one a crash leaves, the moved entry is present in the source or
\* in the destination partition.
C30_InsertBeforeDelete ==
    (/\ call.op = "update"
     /\ call.err = ""
     /\ NamesPartitions(call.form, call.table)
     /\ CrossPartition(call.form, call.table)
     /\ PyInt(call.form.rowid) \in DOMAIN call.before)
    => InSource \/ InDestination

\* the process died after the destination insert and before the delete
C30_Witness ==
    /\ call.op = "update"
    /\ call.kind = "crash"
    /\ NamesPartitions(call.form, call.table)
    /\ CrossPartition(call.form, call.table)
    /\ InSource
    /\ InDestination
    /\ Cardinality(DOMAIN Entry) = Cardinality(DOMAIN call.before) + 1

(***************************************************************************)
(* Claims about callers whose old position is out of date                  *)
(***************************************************************************)
\* the update stays in the stored partition of its entry, and the old
\* position it carries is not the entry's stored position
StaleOldPosition ==
    /\ call.op = "update"
    /\ call.err = ""
    /\ NamesPartitions(call.form, call.table)
    /\ ~CrossPartition(call.form, call.table)
    /\ PositionOrdered(call.form.status)
    /\ PyInt(call.form.rowid) \in DOMAIN call.before
    /\ call.before[PyInt(call.form.rowid)].list = call.form.table
    /\ call.before[PyInt(call.form.rowid)].status = call.form.status
    /\ PosField(call.form.old_pos)
           # call.before[PyInt(call.form.rowid)].position

\* C27: a same-partition update whose caller-supplied old position differs
\* from the entry's stored position still leaves the position-ordered
\* partition with positions exactly 1..N.
C27_StaleOldPosition ==
    (StaleOldPosition /\ Dense(call.before, call.form.table, call.form.status))
    => Dense(Entry, call.form.table, call.form.status)

(***************************************************************************)
(* Shifts and inserts on uploaded stores                                   *)
(***************************************************************************)
\* a position-ordered partition whose two entries also carry a date, and
\* agree in date and name
DatedRanked ==
    <<EntryRow(1, "a", Some(1), Some("d1"), 1, 1),
      EntryRow(2, "a", Some(2), Some("d1"), 1, 1),
      EntryRow(3, "b", Some(1), None, 1, 2)>>

LoadedSnapshots ==
    {[Status |-> SchemaSnapshot.Status, List |-> SchemaSnapshot.List,
      ListStatus |-> ls, Entry |-> e] :
        ls \in QueryLinks, e \in QueryEntries \cup {DatedRanked}}

UploadLoaded ==
    /\ call = NoCall
    /\ \E data \in LoadedSnapshots :
        /\ Status' = upload_newstyle(data).Status
        /\ List' = upload_newstyle(data).List
        /\ ListStatus' = upload_newstyle(data).ListStatus
        /\ Entry' = upload_newstyle(data).Entry
        /\ call' = NoCall

InsertLoaded ==
    /\ call = NoCall
    /\ DOMAIN Status # {}
    /\ \E form \in InsertForms, table \in ListNames :
        \E res \in {insert(Entry, form, table)} :
            /\ Entry' = res.E
            /\ call' = [op |-> "insert", kind |-> "loaded", form |-> form,
                        table |-> table, err |-> res.err, before |-> Entry]
            /\ UNCHANGED <<Status, List, ListStatus>>

ShiftBounds == 0..3

\* one UPDATE statement: it commits, or it raises and changes nothing
Shifted(op, table_id, status_id, lo, hi, res) ==
    /\ Entry' = res.E
    /\ call' = [op |-> op, kind |-> "shift", table_id |-> table_id,
                status_id |-> status_id, lo |-> lo, hi |-> hi,
                err |-> IF res.ok THEN "" ELSE "IntegrityError",
                before |-> Entry]
    /\ UNCHANGED <<Status, List, ListStatus>>

Increment ==
    /\ call = NoCall
    /\ DOMAIN Status # {}
    /\ \E t \in ListIds, s \in StatusIds, p \in ShiftBounds :
        Shifted("_increment", t, s, Some(p), None, increment(Entry, t, s, p))

Decrement ==
    /\ call = NoCall
    /\ DOMAIN Status # {}
    /\ \E t \in ListIds, s \in StatusIds,
          p \in {None} \cup {Some(x) : x \in ShiftBounds} :
        Shifted("_decrement", t, s, p, None, decrement(Entry, t, s, p))

IncrementRange ==
    /\ call = NoCall
    /\ DOMAIN Status # {}
    /\ \E t \in ListIds, s \in StatusIds, g \in ShiftBounds,
          l \in ShiftBounds :
        Shifted("_increment_range", t, s, Some(g), Some(l),
                increment_range(Entry, t, s, g, l))

DecrementRange ==
    /\ call = NoCall
    /\ DOMAIN Status # {}
    /\ \E t \in ListIds, s \in StatusIds, l \in ShiftBounds,
          g \in ShiftBounds :
        Shifted("_decrement_range", t, s, Some(g), Some(l),
                decrement_range(Entry, t, s, l, g))

NextLoaded ==
    \/ UploadLoaded
    \/ InsertLoaded
    \/ Increment
    \/ Decrement
    \/ IncrementRange
    \/ DecrementRange

SpecLoaded == Init /\ [][NextLoaded]_vars

\* the stated bound of each primitive, on a position that is not NULL:
\*   _increment        position >= lo
\*   _decrement        position >  lo
\*   _increment_range  lo <= position <  hi
\*   _decrement_range  lo <  position <= hi
InStatedBound(p) ==
    CASE call.op = "_increment" -> p >= The(call.lo)
      [] call.op = "_decrement" -> call.lo # None /\ p > The(call.lo)
      [] call.op = "_increment_range" ->
             p >= The(call.lo) /\ p < The(call.hi)
      [] call.op = "_decrement_range" ->
             p > The(call.lo) /\ p <= The(call.hi)

Delta == IF call.op \in {"_increment", "_increment_range"} THEN 1 ELSE -1

\* the entries the call is to move: in the named partition, with a position
\* in the stated bound
InScope(r) ==
    /\ call.before[r].list = call.table_id
    /\ call.before[r].status = call.status_id
    /\ call.before[r].position # None
    /\ InStatedBound(The(call.before[r].position))

\* C28: each of the four range-shift primitives changes the position, by
\* exactly +1 or -1, of exactly the entries of the named partition whose
\* position lies in its stated bound, and leaves every other entry and
\* every other field unchanged.
C28_ShiftScoped ==
    (call # NoCall /\ call.kind = "shift") =>
        /\ DOMAIN Entry = DOMAIN call.before
        /\ \A r \in DOMAIN call.before :
               Entry[r] =
                   IF InScope(r)
                   THEN [call.before[r] EXCEPT
                            !.position = Some(The(@) + Delta)]
                   ELSE call.before[r]

\* every entry's list and status are linked by a ListStatus row
AllLinked(E) == \A r \in DOMAIN E : E[r].status \in Visible(E[r].list)

\* C29: insert resolves the target status among the statuses visible for
\* the target list: an insert into a store whose entries are all in linked
\* partitions leaves them so, and an insert naming a status that exists but
\* is not linked to the target list writes no entry.
C29_VisiblePartitionsOnly ==
    (call # NoCall /\ call.op = "insert" /\ AllLinked(call.before)) =>
        /\ AllLinked(Entry)
        /\ (/\ table_by_name(call.table) # None
            /\ call.form.status \in DOMAIN Status
            /\ call.form.status \notin Visible(The(table_by_name(call.table))))
           => Entry = call.before

(***************************************************************************)
(* Import of any snapshot, native or legacy                                *)
(***************************************************************************)
\* the columns INSERT stores for one row of a native snapshot
stored_row(t, row) ==
    CASE t = "Status" -> [name |-> row.name, position |-> row.rowid,
                          orderByPosition |-> row.orderByPosition]
      [] t = "List" -> [name |-> row.name, position |-> row.position,
                        active |-> row.active]
      [] t = "ListStatus" -> [list |-> row.list, status |-> row.status]
      [] t = "Entry" -> [name |-> row.name, position |-> row.position,
                         date |-> row.date, status |-> row.status,
                         list |-> row.list]

\* the constraint an INSERT of row into table t fails on: the rowid is
\* taken, UNIQUE(list, status), or UNIQUE(position,date,name,status,list)
row_conflict(t, T, row) ==
    \/ row.rowid \in DOMAIN T
    \/ /\ t = "ListStatus"
       /\ \E q \in DOMAIN T : T[q] = stored_row(t, row)
    \/ /\ t = "Entry"
       /\ row.position # None
       /\ row.date # None
       /\ \E q \in DOMAIN T : T[q] = stored_row(t, row)

\* _executemany(INSERT ...): the rows go in one after the other; the first
\* conflict raises IntegrityError, which nothing catches.  The connection
\* keeps the rows that went in before it.
RECURSIVE executemany(_, _, _)
executemany(t, T, rows) ==
    IF rows = <<>> THEN [err |-> "", T |-> T]
    ELSE IF row_conflict(t, T, Head(rows))
    THEN [err |-> "IntegrityError", T |-> T]
    ELSE executemany(
             t,
             [r \in DOMAIN T \cup {Head(rows).rowid} |->
                 IF r \in DOMAIN T THEN T[r] ELSE stored_row(t, Head(rows))],
             Tail(rows))

\* lines 214-255, on the empty tables _init_database has just created
upload_native(data) ==
    LET st == executemany("Status", <<>>, data.Status)
        li == IF st.err = "" THEN executemany("List", <<>>, data.List)
              ELSE [err |-> st.err, T |-> <<>>]
        ls == IF li.err = ""
              THEN executemany("ListStatus", <<>>, data.ListStatus)
              ELSE [err |-> li.err, T |-> <<>>]
        en == IF ls.err = "" THEN executemany("Entry", <<>>, data.Entry)
              ELSE [err |-> ls.err, T |-> <<>>]
    IN [err |-> en.err, Status |-> st.T, List |-> li.T,
        ListStatus |-> ls.T, Entry |-> en.T]

\* lines 182-199: the status a legacy position stands for
legacy_status(position) ==
    IF position > 0 THEN "Planned"
    ELSE IF position = 0 THEN "Done" ELSE "Dropped"

\* lines 178-212: the entries of one legacy list.  result[0] of a status
\* that is not stored raises IndexError; a conflicting entry is skipped.
RECURSIVE upload_values(_, _, _, _)
upload_values(S, E, table_id, values) ==
    IF values = <<>> THEN [err |-> "", E |-> E]
    ELSE LET v == Head(values)
             found == {r \in DOMAIN S : S[r].name = legacy_status(v.position)}
             row == [name |-> v.name,
                     position |-> IF v.position > 0 THEN Some(v.position)
                                  ELSE None,
                     date |-> IF v.position > 0 THEN None ELSE v.date,
                     status |-> Min(found), list |-> table_id]
         IN IF found = {} THEN [err |-> "IndexError", E |-> E]
            ELSE upload_values(
                     S,
                     IF UniqueConflict(E, 0, row) THEN E
                     ELSE [r \in DOMAIN E \cup {NextRowid(E)} |->
                              IF r \in DOMAIN E THEN E[r] ELSE row],
                     table_id, Tail(values))

\* lines 154-176: the List row of a legacy list and its ListStatus rows
legacy_links(S, LS, table_id) ==
    LET new == {x \in DOMAIN S :
                   ~\E q \in DOMAIN LS :
                       LS[q].list = table_id /\ LS[q].status = x}
        order == RowidOrder([x \in new |-> x])
    IN LS \o [i \in 1..Cardinality(new) |->
                 [list |-> table_id, status |-> order[i]]]

\* lines 154-212: list after list, tbl_pos counting the lists
RECURSIVE upload_oldstyle(_, _, _, _, _, _)
upload_oldstyle(S, L, LS, E, lists, tbl_pos) ==
    IF lists = <<>>
    THEN [err |-> "", Status |-> S, List |-> L, ListStatus |-> LS,
          Entry |-> E]
    ELSE IF Head(lists).table = "_default"
    THEN upload_oldstyle(S, L, LS, E, Tail(lists), tbl_pos)
    ELSE LET table_id == NewRowid(L)
             L2 == [r \in DOMAIN L \cup {table_id} |->
                       IF r \in DOMAIN L THEN L[r]
                       ELSE [name |-> Head(lists).table,
                             position |-> tbl_pos, active |-> 1]]
             LS2 == legacy_links(S, LS, table_id)
             vals == upload_values(S, E, table_id, Head(lists).values)
         IN IF vals.err # ""
            THEN [err |-> vals.err, Status |-> S, List |-> L2,
                  ListStatus |-> LS2, Entry |-> vals.E]
            ELSE upload_oldstyle(S, L2, LS2, vals.E, Tail(lists),
                                 tbl_pos + 1)

\* lines 257-265: the tables are dropped and created empty, then loaded
upload(data) ==
    IF data.sqlite THEN upload_native(data)
    ELSE upload_oldstyle(<<>>, <<>>, <<>>, <<>>, data.lists, 1)

\* sequences of at most n elements of S
SeqsUpTo(S, n) == UNION {[1..m -> S] : m \in 0..n}

MaxImportRows == 2

\* ListStatus rows: two distinct links, a third rowid for the first pair,
\* and the first rowid for another pair
LinkRows ==
    {[rowid |-> 1, list |-> 1, status |-> 1],
     [rowid |-> 2, list |-> 1, status |-> 2],
     [rowid |-> 3, list |-> 1, status |-> 1],
     [rowid |-> 1, list |-> 2, status |-> 1]}

\* Entry rows: rowid 1 twice, and the same dated tuple under two rowids
EntryRows ==
    {EntryRow(1, "a", Some(1), None, 1, 1),
     EntryRow(1, "b", Some(2), None, 1, 1),
     EntryRow(2, "b", Some(2), None, 1, 1),
     EntryRow(2, "c", Some(1), Some("d1"), 1, 1),
     EntryRow(3, "c", Some(1), Some("d1"), 1, 1)}

NativeSnapshots ==
    {[sqlite |-> TRUE, Status |-> SchemaSnapshot.Status,
      List |-> SchemaSnapshot.List, ListStatus |-> ls, Entry |-> e] :
        ls \in SeqsUpTo(LinkRows, MaxImportRows),
        e \in SeqsUpTo(EntryRows, MaxImportRows)}

\* legacy entries: a position above, at and below zero
LegacyValues ==
    {[name |-> "a", position |-> 1, date |-> None],
     [name |-> "b", position |-> 2, date |-> Some("d1")],
     [name |-> "a", position |-> 0, date |-> Some("d1")],
     [name |-> "a", position |-> -1, date |-> None]}

\* one legacy list, or two; "_default" is the key the import skips
LegacySnapshots ==
    {[sqlite |-> FALSE, lists |-> <<[table |-> "A", values |-> v]>>] :
        v \in SeqsUpTo(LegacyValues, MaxImportRows)}
    \cup {[sqlite |-> FALSE,
           lists |-> <<[table |-> "_default", values |-> <<>>],
                       [table |-> "A", values |-> v],
                       [table |-> "B", values |-> w]>>] :
             v \in SeqsUpTo(LegacyValues, 1),
             w \in SeqsUpTo(LegacyValues, MaxImportRows)}

\* upload(data): what the connection holds when upload returns or raises
Imported(data, res) ==
    /\ Status' = res.Status
    /\ List' = res.List
    /\ ListStatus' = res.ListStatus
    /\ Entry' = res.Entry
    /\ call' = [op |-> "upload", kind |-> "import", data |-> data,
                err |-> res.err]

ImportNative ==
    /\ call = NoCall
    /\ \E data \in NativeSnapshots : Imported(data, upload(data))

ImportLegacy ==
    /\ call = NoCall
    /\ \E data \in LegacySnapshots : Imported(data, upload(data))

NextImport == ImportNative \/ ImportLegacy

SpecImport == Init /\ [][NextImport]_vars

Uploaded == call # NoCall /\ call.op = "upload"

\* a stored entry of the named list that is the legacy entry v, with the
\* status, position and date its legacy position stands for
StoredAs(table, v) ==
    \E r \in DOMAIN Entry :
        /\ Entry[r].name = v.name
        /\ Entry[r].list \in DOMAIN List
        /\ List[Entry[r].list].name = table
        /\ Entry[r].status \in DOMAIN Status
        /\ Status[Entry[r].status].name = legacy_status(v.position)
        /\ Entry[r].position = IF v.position > 0 THEN Some(v.position)
                               ELSE None
        /\ v.position > 0 => Entry[r].date = None
        /\ v.position = 0 => Entry[r].date = v.date

\* C21: import of a legacy snapshot completes without error and stores
\* every legacy entry, with the status its legacy position stands for:
\* above zero Planned with that position and no date, zero Done with its
\* date and no position, below zero Dropped with no position.
C21_LegacyImport ==
    (Uploaded /\ ~call.data.sqlite) =>
        /\ call.err = ""
        /\ \A i \in 1..Len(call.data.lists) :
               call.data.lists[i].table # "_default" =>
                   \A j \in 1..Len(call.data.lists[i].values) :
                       StoredAs(call.data.lists[i].table,
                                call.data.lists[i].values[j])

Tables4 == {"Status", "List", "ListStatus", "Entry"}

\* row i of table t of the snapshot conflicts with an earlier row of it
ConflictsEarlier(t, i) ==
    \E j \in 1..(i - 1) :
        LET a == call.data[t][j]
            b == call.data[t][i]
        IN \/ a.rowid = b.rowid
           \/ t = "ListStatus" /\ stored_row(t, a) = stored_row(t, b)
           \/ /\ t = "Entry"
              /\ b.position # None
              /\ b.date # None
              /\ stored_row(t, a) = stored_row(t, b)

StoreOf(t) ==
    CASE t = "Status" -> Status
      [] t = "List" -> List
      [] t = "ListStatus" -> ListStatus
      [] t = "Entry" -> Entry

\* C22: during import a row that conflicts with an already loaded row on a
\* uniqueness constraint (same row identity, or same (list, status) pair)
\* is skipped, every non-conflicting row is still loaded, and import
\* returns without error.
C22_ImportSkipsDuplicates ==
    (/\ Uploaded
     /\ call.data.sqlite
     /\ \E t \in Tables4 : \E i \in 1..Len(call.data[t]) :
            ConflictsEarlier(t, i))
    => /\ call.err = ""
       /\ \A t \in Tables4 : \A i \in 1..Len(call.data[t]) :
              ~ConflictsEarlier(t, i) =>
                  /\ call.data[t][i].rowid \in DOMAIN StoreOf(t)
                  /\ StoreOf(t)[call.data[t][i].rowid]
                         = stored_row(t, call.data[t][i])

(***************************************************************************)
(* Two calls on the same partition                                         *)
(***************************************************************************)
\* two calls on the same partition are started, each on its own handle
StartRace ==
    /\ call = NoCall
    /\ DOMAIN Entry # {}
    /\ \E p1, p2 \in PairCalls :
        /\ target(Entry, p1) = target(Entry, p2)
        /\ call' = [op |-> "pair", kind |-> "race",
                    before |-> Entry, start |-> <<p1, p2>>,
                    procs |-> <<p1, p2>>, order |-> <<>>]
    /\ UNCHANGED <<Status, List, ListStatus, Entry>>

NextRace == UploadPair \/ StartRace \/ StepPair

SpecRace == Init /\ [][NextRace]_vars

\* two inserts into one position-ordered partition have ended; both
\* resolved the same position, and each had read and shifted before either
\* wrote its row
RacedInserts ==
    /\ call.op = "pair"
    /\ call.kind = "race"
    /\ \A i \in 1..2 :
           /\ call.procs[i].pc = "done"
           /\ call.start[i].op = "insert"
           /\ PositionOrdered(call.start[i].form.status)
    /\ call.procs[1].loc # <<>>
    /\ call.procs[2].loc # <<>>
    /\ call.procs[1].loc.position = call.procs[2].loc.position
    /\ Len(call.order) >= 2
    /\ call.order[Len(call.order)] # call.order[Len(call.order) - 1]

\* C31: the engine takes no lock and commits each statement separately:
\* when two concurrent inserts into the same position-ordered partition
\* both resolve their position before either writes, both return without
\* error and two entries hold the same position, so the partition is not
\* dense; nothing detects or rejects it.
C31_SamePartitionRace ==
    RacedInserts =>
        LET t == target(call.before, call.start[1])[1]
            x == target(call.before, call.start[1])[2]
        IN /\ \A i \in 1..2 : call.procs[i].err = ""
           /\ \E r, q \in PartitionRows(Entry, t, x) :
                  /\ r # q
                  /\ r \notin DOMAIN call.before
                  /\ q \notin DOMAIN call.before
                  /\ Entry[r].position = Entry[q].position
           /\ ~Dense(Entry, t, x)

\* the partition was dense, both inserts asked for position 1 and shifted,
\* and their statements alternated
C31_Witness ==
    /\ RacedInserts
    /\ Dense(call.before, target(call.before, call.start[1])[1],
             target(call.before, call.start[1])[2])
    /\ call.procs[1].loc.position = 1
    /\ call.order = <<1, 2, 1, 2, 1, 2>>

(***************************************************************************)
(* Callers whose fields do not parse                                       *)
(***************************************************************************)
\* text int() raises ValueError on
MalformedNumbers == {"x", "1.5"}

\* an insert whose position is no number
MalformedInsert ==
    /\ call = NoCall
    /\ \E p \in MalformedNumbers, n \in NameInputs, s \in StatusIds,
          table \in ListNames :
        \E form \in {[position |-> p, name |-> n, status |-> s,
                      date |-> Some("d1")]} :
            \E res \in {insert(Entry, form, table)} :
                Called("malformed", "insert", form, table, res)

\* the page of row r submitted with a rowid, an old position or a new
\* position that is no number
MalformedUpdate ==
    /\ call = NoCall
    /\ \E r \in DOMAIN Entry, t \in ListIds, s \in StatusIds, n \in {"a"},
          id \in RowidInputs \cup MalformedNumbers \cup {""},
          op \in {"", "1", "2"} \cup MalformedNumbers,
          np \in {"", "1"} \cup MalformedNumbers :
        /\ id \in {PyStr(r)} \cup MalformedNumbers \cup {""}
        /\ op \in {PyPos(Entry[r].position)} \cup MalformedNumbers
        /\ ~IsNumeral(id) \/ BadPosField(op) \/ BadPosField(np)
        /\ \E form \in {[UpdateForm(r, t, s, np, n, "d1") EXCEPT
                            !.rowid = id, !.old_pos = op]} :
            \E res \in {update(Entry, form, List[Entry[r].list].name)} :
                Called("malformed", "update", form,
                       List[Entry[r].list].name, res)

NextMalformed == Next \/ MalformedInsert \/ MalformedUpdate

SpecMalformed == Init /\ [][NextMalformed]_vars

\* the call is an insert into a position-ordered partition with a position
\* that is no number, or an update with such a rowid, old or new position
MalformedCall ==
    \/ /\ call.op = "insert"
       /\ table_by_name(call.table) # None
       /\ PositionOrdered(call.form.status)
       /\ BadPosField(call.form.position)
    \/ /\ call.op = "update"
       /\ \/ ~IsNumeral(call.form.rowid)
          \/ BadPosField(call.form.old_pos)
          \/ BadPosField(call.form.pos)

\* C32: an insert into a position-ordered partition with a non-numeric
\* position, and an update with a non-numeric old position, new position
\* or rowid, raise an error before any write is issued: the store is
\* unchanged and no shift has been applied.
C32_MalformedChangesNothing ==
    MalformedCall =>
        /\ call.err # ""
        /\ call.nwrites = 0
        /\ Entry = call.before

\* a move to the other list of a stored entry, submitted with a new
\* position that is no number, has raised ValueError
C32_Witness ==
    /\ call.op = "update"
    /\ call.kind = "malformed"
    /\ IsNumeral(call.form.rowid)
    /\ PyInt(call.form.rowid) \in DOMAIN call.before
    /\ BadPosField(call.form.pos)
    /\ CrossPartition(call.form, call.table)
    /\ call.err = "ValueError"
    /\ Cardinality(DOMAIN Entry) = MaxRows

(***************************************************************************)
(* Claims about the reorder branch and the destination of a move           *)
(***************************************************************************)
\* the requested position clamped to 1 and capped at the largest position
\* of the partition; a blank request asks for the end
ClampedAndCapped(E, t, x, pos) ==
    LET m == max_position(E, t, x)
        p == IF pos \in {"", "None"} THEN m ELSE PyInt(pos)
        c == IF p < 1 THEN 1 ELSE p
    IN IF c > m THEN m ELSE c

\* a same-partition update of a stored entry that the no-op guard lets
\* through, with name and date unchanged, whose new position resolves to
\* the position the entry has
ResolvesToOldPosition ==
    /\ call.op = "update"
    /\ call.kind = "fresh"
    /\ NamesPartitions(call.form, call.table)
    /\ ~CrossPartition(call.form, call.table)
    /\ ~IdenticalFields(call.form, call.table)
    /\ PositionOrdered(call.form.status)
    /\ strip(call.form.old_name) = strip(call.form.name)
    /\ call.form.old_date = call.form.date
    /\ IsNumeral(call.form.old_pos)
    /\ ClampedAndCapped(call.before, call.form.table, call.form.status,
                        call.form.pos) = PyInt(call.form.old_pos)

\* C33: a same-partition update that is not caught by the no-op guard but
\* whose new position, after clamping to 1 and capping at the partition
\* maximum, equals the old position, with name and date unchanged, applies
\* no shift and performs zero writes.
C33_ReorderWriteGuard ==
    ResolvesToOldPosition =>
        /\ call.err = ""
        /\ call.nwrites = 0
        /\ Entry = call.before

\* the last of two entries is asked to move to the end
C33_Witness ==
    /\ ResolvesToOldPosition
    /\ Count(call.before, call.form.table, call.form.status) = 2
    /\ call.form.old_pos = "2"
    /\ call.form.pos = ""

\* an update of a stored entry that moved it into another partition, a
\* position-ordered one, and returned
MovedIntoRanked ==
    /\ call.op = "update"
    /\ call.kind = "fresh"
    /\ call.err = ""
    /\ NamesPartitions(call.form, call.table)
    /\ CrossPartition(call.form, call.table)
    /\ PositionOrdered(call.form.status)

\* C34: when an update moves an entry into a position-ordered destination
\* partition with requested position p and returns, the entry is stored at
\* resolve_position(destination, p), computed against the destination's
\* own maximum, and the destination entries at or after that position have
\* shifted up by one; the others keep their position.
C34_MoveResolvesAtDestination ==
    MovedIntoRanked =>
        LET t == call.form.table
            x == call.form.status
            p == Resolved(call.before, t, x, call.form.pos)
        IN /\ \E q \in DOMAIN Entry \ DOMAIN call.before :
                  /\ InPartition(Entry, q, t, x)
                  /\ Entry[q].name = strip(call.form.name)
                  /\ Entry[q].position = Some(p)
           /\ \A r \in PartitionRows(call.before, t, x) :
                  /\ r \in DOMAIN Entry
                  /\ Entry[r].position =
                         IF /\ call.before[r].position # None
                            /\ The(call.before[r].position) >= p
                         THEN Some(The(call.before[r].position) + 1)
                         ELSE call.before[r].position

\* the entry came from position 2 of its partition, asked for position 2,
\* and is stored at position 1 of an empty destination
C34_Witness ==
    /\ MovedIntoRanked
    /\ call.form.old_pos = "2"
    /\ call.form.pos = "2"
    /\ Count(call.before, call.form.table, call.form.status) = 0
    /\ \E q \in PartitionRows(Entry, call.form.table, call.form.status) :
           Entry[q].position = Some(1)

(***************************************************************************)
(* A new store handle, and an import into a store that holds rows          *)
(***************************************************************************)
\* The database file: for each table whether it exists, and its rows.
Database ==
    [Status |-> [exists |-> TRUE, rows |-> Status],
     List |-> [exists |-> TRUE, rows |-> List],
     ListStatus |-> [exists |-> TRUE, rows |-> ListStatus],
     Entry |-> [exists |-> TRUE, rows |-> Entry]]

\* a DROP TABLE that leaves the table and its rows where they are
drop_table_kept(T) == T

\* DROP TABLE
drop_table(T) == [exists |-> FALSE, rows |-> <<>>]

\* lines 130-135
drop_database(db) == [t \in DOMAIN db |-> drop_table(db[t])]

\* a CREATE TABLE that replaces a table that is already there
create_table_replacing(T) == [exists |-> TRUE, rows |-> <<>>]

\* CREATE TABLE: on a table that exists it raises OperationalError
\* "already exists", which _init_database catches
create_table(T) == IF T.exists THEN T ELSE [exists |-> TRUE, rows |-> <<>>]

\* lines 62-128
init_database(db) == [t \in DOMAIN db |-> create_table(db[t])]

\* lines 214-255 on the tables of db
upload_newstyle_into(db, data) ==
    LET st == executemany("Status", db.Status.rows, data.Status)
        li == IF st.err = "" THEN executemany("List", db.List.rows, data.List)
              ELSE [err |-> st.err, T |-> db.List.rows]
        ls == IF li.err = ""
              THEN executemany("ListStatus", db.ListStatus.rows,
                               data.ListStatus)
              ELSE [err |-> li.err, T |-> db.ListStatus.rows]
        en == IF ls.err = ""
              THEN executemany("Entry", db.Entry.rows, data.Entry)
              ELSE [err |-> ls.err, T |-> db.Entry.rows]
    IN [err |-> en.err, Status |-> st.T, List |-> li.T,
        ListStatus |-> ls.T, Entry |-> en.T]

\* lines 257-265 on a database that holds rows
upload_over(db, data) ==
    LET fresh == init_database(drop_database(db))
    IN IF data.sqlite THEN upload_newstyle_into(fresh, data)
       ELSE upload_oldstyle(fresh.Status.rows, fresh.List.rows,
                            fresh.ListStatus.rows, fresh.Entry.rows,
                            data.lists, 1)

\* snapshots imported over a store: native ones with other lists, statuses
\* and entries than the store holds, legacy ones with and without entries
OverSnapshots ==
    {[sqlite |-> TRUE,
      Status |-> <<[rowid |-> 2, name |-> "Later", orderByPosition |-> 1]>>,
      List |-> <<[rowid |-> 3, name |-> "C", position |-> 1, active |-> 1]>>,
      ListStatus |-> <<[rowid |-> 5, list |-> 3, status |-> 2]>>,
      Entry |-> e] :
        e \in {<<>>, <<EntryRow(1, "z", Some(1), None, 2, 3)>>,
               <<EntryRow(2, "z", Some(1), None, 2, 3),
                 EntryRow(4, "y", Some(2), Some("d1"), 2, 3)>>}}
    \cup {[sqlite |-> TRUE, Status |-> <<>>, List |-> <<>>,
           ListStatus |-> <<>>, Entry |-> <<>>]}
    \cup {[sqlite |-> FALSE, lists |-> l] :
             l \in {<<>>, <<[table |-> "C", values |-> <<>>]>>,
                    <<[table |-> "B", values |-> <<>>],
                      [table |-> "A", values |-> <<>>]>>,
                    <<[table |-> "A", values |->
                          <<[name |-> "a", position |-> 1,
                             date |-> None]>>]>>}}

\* DatabaseSqlite3(...) on the file of the store: __init__ runs
\* _init_database
Reopen ==
    /\ call = NoCall
    /\ DOMAIN Status # {}
    /\ \E db \in {init_database(Database)} :
        /\ Status' = db.Status.rows
        /\ List' = db.List.rows
        /\ ListStatus' = db.ListStatus.rows
        /\ Entry' = db.Entry.rows
        /\ call' = [op |-> "init", kind |-> "handle", err |-> "",
                    before |-> Database]

ImportOver ==
    /\ call = NoCall
    /\ DOMAIN Status # {}
    /\ \E data \in OverSnapshots :
        \E res \in {upload_over(Database, data)} :
            /\ Status' = res.Status
            /\ List' = res.List
            /\ ListStatus' = res.ListStatus
            /\ Entry' = res.Entry
            /\ call' = [op |-> "upload", kind |-> "over", data |-> data,
                        err |-> res.err, before |-> Database]

NextHandle == Next \/ Reopen \/ ImportOver

SpecHandle == Init /\ [][NextHandle]_vars

\* C35: running the schema initialisation against a store whose four
\* tables already exist raises no error and leaves every existing Status,
\* List, ListStatus and Entry row unchanged.
C35_InitIdempotent ==
    (call # NoCall /\ call.op = "init") =>
        /\ call.err = ""
        /\ Status = call.before.Status.rows
        /\ List = call.before.List.rows
        /\ ListStatus = call.before.ListStatus.rows
        /\ Entry = call.before.Entry.rows

\* a handle was opened on a store that holds lists, statuses and entries
C35_Witness ==
    /\ call # NoCall
    /\ call.op = "init"
    /\ Cardinality(DOMAIN Entry) = MaxRows
    /\ DOMAIN List # {}
    /\ DOMAIN ListStatus # {}

\* the List rows a legacy snapshot stands for: one per list, in the order
\* of the snapshot, all active
LegacyLists(lists) ==
    [i \in 1..Len(lists) |->
        [name |-> lists[i].table, position |-> i, active |-> 1]]

\* C36: after import(snapshot) returns, the store holds exactly the rows
\* derived from the snapshot: no Status, List, ListStatus or Entry row that
\* existed before the import remains.
C36_ImportReplaces ==
    (call # NoCall /\ call.op = "upload" /\ call.kind = "over"
     /\ call.err = "")
    => IF call.data.sqlite
       THEN /\ Status = upload_newstyle(call.data).Status
            /\ List = upload_newstyle(call.data).List
            /\ ListStatus = upload_newstyle(call.data).ListStatus
            /\ Entry = upload_newstyle(call.data).Entry
       ELSE /\ Status = <<>>
            /\ List = LegacyLists(call.data.lists)
            /\ ListStatus = <<>>
            /\ Entry = <<>>

\* a native snapshot with one entry was imported into a store that held
\* two lists, two statuses and MaxRows entries
C36_Witness ==
    /\ call # NoCall
    /\ call.op = "upload"
    /\ call.kind = "over"
    /\ call.err = ""
    /\ call.data.sqlite
    /\ Len(call.data.Entry) = 1
    /\ Cardinality(DOMAIN call.before.Entry.rows) = MaxRows
    /\ Cardinality(DOMAIN call.before.List.rows) = 2
    /\ Cardinality(DOMAIN Entry) = 1

====
